---- MODULE Spec2Model ----
(***************************************************************************)
(* Model of mcp-chinese-time: FuzzyTimeParser (parser.py) and the RPC      *)
(* handler _parse_time_handler (server.py).                                *)
(*                                                                         *)
(* TEXT.  An expression is a sequence of characters; each character is a   *)
(* one-element string token.  ASCII characters stand for themselves        *)
(* ("0".."9", "-", "~", " "); a Chinese character is written by its pinyin *)
(* (a digit suffix tells homophones apart):                                *)
(*   零 ling   一 yi    二 er    两 liang  三 san   四 si    五 wu           *)
(*   六 liu    七 qi    八 ba    九 jiu    十 shi   半 ban                   *)
(*   今 jin    天 tian  日 ri    昨 zuo    前 qian  大 da    明 ming  后 hou *)
(*   本 ben    这 zhe   周 zhou  上 shang  下 xia   星 xing  期 qi2          *)
(*   个 ge     月 yue   年 nian  号 hao                                      *)
(*   凌 ling2  晨 chen  早 zao   午 wu2    中 zhong 晚 wan   深 shen  夜 ye  *)
(*   点 dian   分 fen   到 dao   至 zhi    从 cong                           *)
(*   元 yuan   旦 dan   情 qing  人 ren    节 jie   妇 fu    女 nv           *)
(*   植 zhi2   树 shu   愚 yu    劳 lao    动 dong  儿 er2   童 tong         *)
(*   建 jian   党 dang  军 jun   教 jiao   师 shi2  国 guo   庆 qing2        *)
(*   双 shuang 平 ping  安 an    圣 sheng  诞 dan2                           *)
(*   春 chun   过 guo2  初 chu   除 chu2   夕 xi    宵 xiao  龙 long         *)
(*   抬 tai    头 tou   端 duan  秋 qiu    重 chong 阳 yang  腊 la           *)
(*   小 xiao2  清 qing3 间 jian2                                             *)
(*   随 sui    便 bian  什 shen2 么 me                                       *)
(* and the superscript two (U+00B2), a digit that is no decimal, is sup2,   *)
(* so that 上周三 is <<"shang","zhou","san">>.                              *)
(*                                                                         *)
(* TIME.  A date is its proleptic Gregorian ordinal (0001-01-01 = 1), as   *)
(* Python's date.toordinal().  The system clock counts hours in UTC since  *)
(* 0001-01-01T00:00; an aware datetime is [date, hour, minute] in its own  *)
(* zone.  Confidences are in hundredths (0.95 is 95).                      *)
(***************************************************************************)
EXTENDS Integers, Sequences, FiniteSets, TLC

VARIABLES
    clock,      \* the system clock: hours since 0001-01-01T00:00 UTC
    zhdate,     \* the zhdate library: "unknown" until first imported, then "ok" or "absent"
    _now,       \* FuzzyTimeParser._now of each parser instance: None or a datetime
    tz,         \* FuzzyTimeParser.tz of each parser instance: the zone's UTC offset
    call,       \* each caller's running call: position, arguments, locals
    out,        \* what each caller's last call returned (or raised)
    ticks,      \* how often the clock has advanced
    ncalls      \* how many calls have been made

vars == <<clock, zhdate, _now, tz, call, out, ticks, ncalls>>

\* Bounds of the model
MaxTicks == 2       \* how often the clock advances in a behaviour
MaxCalls == 2       \* how many calls a behaviour makes
NumDays == 7        \* how many consecutive days the clock may start on
MaxNumeral == 2     \* the ASCII numerals 0..MaxNumeral are offered as offsets
MaxTokenLen == 3    \* the longest token handed to the numeral converter on its own

(***************************************************************************)
(* Calendar arithmetic of datetime / calendar, as CPython computes it.     *)
(***************************************************************************)

\* calendar.isleap, datetime._is_leap
isleap(year) == (year % 4 = 0) /\ ((year % 100 # 0) \/ (year % 400 = 0))

\* FuzzyTimeParser._is_leap_year
_is_leap_year(year) == ((year % 4 = 0) /\ (year % 100 # 0)) \/ (year % 400 = 0)

mdays == <<31, 28, 31, 30, 31, 30, 31, 31, 30, 31, 30, 31>>

monthrange_julian(year, month) ==
    IF month = 2 /\ year % 4 = 0 THEN 29 ELSE mdays[month]

\* calendar.monthrange(year, month)[1]: the number of days of the month
monthrange(year, month) ==
    mdays[month] + (IF month = 2 /\ isleap(year) THEN 1 ELSE 0)

DaysBeforeMonthTab == <<0, 31, 59, 90, 120, 151, 181, 212, 243, 273, 304, 334>>

\* _DAYS_BEFORE_MONTH[month] + (month > 2 and leapyear)
DaysBefore(month, leapyear) ==
    DaysBeforeMonthTab[month] + (IF month > 2 /\ leapyear THEN 1 ELSE 0)

days_before_month(year, month) == DaysBefore(month, isleap(year))

days_before_year(year) ==
    LET y == year - 1
    IN  y * 365 + (y \div 4) - (y \div 100) + (y \div 400)

ValidDate_31(year, month, day) ==
    /\ year >= 1 /\ year <= 9999
    /\ month >= 1 /\ month <= 12
    /\ day >= 1 /\ day <= 31

\* datetime(year, month, day) accepts exactly these; otherwise ValueError
ValidDate(year, month, day) ==
    /\ year >= 1 /\ year <= 9999
    /\ month >= 1 /\ month <= 12
    /\ day >= 1 /\ day <= monthrange(year, month)

\* date(year, month, day).toordinal()
ymd2ord(year, month, day) ==
    days_before_year(year) + days_before_month(year, month) + day

\* date.fromordinal(n) as <<year, month, day>>: _ord2ymd, from its last step
\* (the month of the 0-based day n of the year) back to its first
YearDayMonth(year, n, leapyear, month) ==
    <<year, month, n - DaysBefore(month, leapyear) + 1>>

YearDay(year, n, leapyear) ==
    YearDayMonth(year, n, leapyear,
                 IF DaysBefore((n + 50) \div 32, leapyear) > n
                 THEN ((n + 50) \div 32) - 1
                 ELSE (n + 50) \div 32)

ord2ymd_n1(n400, n100, n4, n1, n) ==
    IF n1 = 4 \/ n100 = 4
    THEN <<n400 * 400 + n100 * 100 + n4 * 4 + n1, 12, 31>>
    ELSE YearDay(n400 * 400 + 1 + n100 * 100 + n4 * 4 + n1, n,
                 (n1 = 3) /\ ((n4 # 24) \/ (n100 = 3)))

ord2ymd_n100(n400, n100, r100) ==
    ord2ymd_n1(n400, n100, r100 \div 1461, (r100 % 1461) \div 365, (r100 % 1461) % 365)

ord2ymd(ordinal) ==
    ord2ymd_n100((ordinal - 1) \div 146097, ((ordinal - 1) % 146097) \div 36524,
                 ((ordinal - 1) % 146097) % 36524)

MaxOrdinal == ymd2ord(9999, 12, 31)
MaxDeltaDays == 999999999

\* date.weekday(): Monday is 0
weekday(ordinal) == (ordinal + 6) % 7

Pad2(n) == IF n < 10 THEN "0" \o ToString(n) ELSE ToString(n)

\* the f-string of _parse_relative_month
FormatYearMonthDay(year, month, day) ==
    ToString(year) \o "-" \o Pad2(month) \o "-" \o Pad2(day)

FormatYmd(d) == FormatYearMonthDay(d[1], d[2], d[3])

\* strftime("%Y-%m-%d") of a date (glibc: %Y is the year unpadded)
FormatDate(ordinal) == FormatYmd(ord2ymd(ordinal))

\* FuzzyTimeParser._format_datetime(dt, date_only)
_format_datetime(dt, date_only) ==
    IF date_only
    THEN FormatDate(dt.date)
    ELSE FormatDate(dt.date) \o " " \o Pad2(dt.hour) \o ":" \o Pad2(dt.minute) \o ":00"

(***************************************************************************)
(* Text: str methods and the pieces the regular expressions are made of.   *)
(***************************************************************************)

Digits == {"0", "1", "2", "3", "4", "5", "6", "7", "8", "9"}

DigitValue(c) ==
    CASE c = "0" -> 0 [] c = "1" -> 1 [] c = "2" -> 2 [] c = "3" -> 3 [] c = "4" -> 4
      [] c = "5" -> 5 [] c = "6" -> 6 [] c = "7" -> 7 [] c = "8" -> 8 [] c = "9" -> 9

\* [一二三四五六七八九十]
CnClass == {"yi", "er", "san", "si", "wu", "liu", "qi", "ba", "jiu", "shi"}

\* [一二两三四五六七八九十]
CnClassLiang == CnClass \cup {"liang"}

\* str.startswith
StartsWithAt(s, k, i) ==
    /\ i + Len(k) - 1 <= Len(s)
    /\ \A j \in 1..Len(k) : s[i + j - 1] = k[j]

\* k in s
Contains(s, k) == \E i \in 1..(Len(s) + 1) : StartsWithAt(s, k, i)

\* str.strip(), for the blank " "
RECURSIVE lstrip(_)
lstrip(s) == IF s # <<>> /\ Head(s) = " " THEN lstrip(Tail(s)) ELSE s

RECURSIVE rstrip(_)
rstrip(s) ==
    IF s # <<>> /\ s[Len(s)] = " " THEN rstrip(SubSeq(s, 1, Len(s) - 1)) ELSE s

strip(s) == rstrip(lstrip(s))

\* str.isdigit: the decimal digits and the other digit characters, such as the
\* superscript two, which \d does not match and int() rejects
isdigit(s) == s # <<>> /\ \A i \in 1..Len(s) : s[i] \in Digits \cup {"sup2"}

\* the least number of a set, 0 for the empty set: the first hit of a loop over
\* positions or list entries, 0 when the loop finds none
First(S) == IF S = {} THEN 0 ELSE CHOOSE i \in S : \A j \in S : i <= j

\* the length of the longest run of characters of cls in s from position i on:
\* up to the first position that holds none, or the end
RunLen(s, i, cls) ==
    IF i > Len(s) THEN 0
    ELSE First({j \in i..(Len(s) + 1) : j > Len(s) \/ s[j] \notin cls}) - i

\* int(s) of a digit string: the leading zeros add nothing
RECURSIVE int(_)
int(s) ==
    IF s = <<>> THEN 0
    ELSE IF s[1] = "0" THEN int(SubSeq(s, RunLen(s, 1, {"0"}) + 1, Len(s)))
    ELSE int(SubSeq(s, 1, Len(s) - 1)) * 10 + DigitValue(s[Len(s)])

\* (\d+|[cls]+) at position i: the length matched, 0 when it does not match.
\* Every pattern continues with a character outside both classes, so the
\* greedy run is the only candidate.
NumTokenLen(s, i, cls) ==
    IF RunLen(s, i, Digits) > 0 THEN RunLen(s, i, Digits) ELSE RunLen(s, i, cls)

\* (\d{1,2}) at position i followed by something that is no digit
Digits12Len(s, i) == IF RunLen(s, i, Digits) > 2 THEN 2 ELSE RunLen(s, i, Digits)

\* dict lookup in a table of <<key, value>> pairs: dict.get(key, default)
Get(table, key, default) ==
    IF \E i \in 1..Len(table) : table[i][1] = key
    THEN table[CHOOSE i \in 1..Len(table) : table[i][1] = key][2]
    ELSE default

HasKey(table, key) == \E i \in 1..Len(table) : table[i][1] = key

(***************************************************************************)
(* The numeral converter.  Values are kept in halves so that 半 = 0.5 is   *)
(* exact: CN_NUMBERS maps 三 to 6 halves.                                  *)
(***************************************************************************)

CN_NUMBERS == <<
    << <<"ling">>, 0 >>, << <<"yi">>, 2 >>, << <<"er">>, 4 >>, << <<"liang">>, 4 >>,
    << <<"san">>, 6 >>, << <<"si">>, 8 >>, << <<"wu">>, 10 >>, << <<"liu">>, 12 >>,
    << <<"qi">>, 14 >>, << <<"ba">>, 16 >>, << <<"jiu">>, 18 >>, << <<"shi">>, 20 >>,
    << <<"shi", "yi">>, 22 >>, << <<"shi", "er">>, 24 >>, << <<"ban">>, 1 >> >>

\* cn.split("十") of a three-character cn that contains 十: its first two parts
SplitRest(a, rest) ==
    << a, IF First({i \in 1..Len(rest) : rest[i] = "shi"}) = 0 THEN rest
          ELSE SubSeq(rest, 1, First({i \in 1..Len(rest) : rest[i] = "shi"}) - 1) >>

SplitShi(cn) ==
    SplitRest(SubSeq(cn, 1, First({i \in 1..Len(cn) : cn[i] = "shi"}) - 1),
              SubSeq(cn, First({i \in 1..Len(cn) : cn[i] = "shi"}) + 1, Len(cn)))

\* _cn_to_num of a token that is no digit string, in halves
CnToHalves(cn) ==
    IF HasKey(CN_NUMBERS, cn) THEN Get(CN_NUMBERS, cn, 0)
    ELSE IF Len(cn) = 2 /\ cn[1] = "shi" THEN 20 + Get(CN_NUMBERS, <<cn[2]>>, 0)
    ELSE IF Len(cn) = 2 /\ cn[2] = "shi" THEN Get(CN_NUMBERS, <<cn[1]>>, 0) * 10
    ELSE IF Len(cn) = 3 /\ Contains(cn, <<"shi">>) 
         THEN Get(CN_NUMBERS, SplitShi(cn)[1], 0) * 10 + Get(CN_NUMBERS, SplitShi(cn)[2], 0)
    ELSE 2

\* whether _cn_to_num(cn) is a float: CN_NUMBERS holds 半 as 0.5, and a sum or
\* product with it is a float, whole or not (半十 is 5.0)
CnIsFloat(cn) ==
    IF isdigit(cn) THEN FALSE
    ELSE IF HasKey(CN_NUMBERS, cn) THEN cn = <<"ban">>
    ELSE IF Len(cn) = 2 /\ cn[1] = "shi" THEN cn[2] = "ban"
    ELSE IF Len(cn) = 2 /\ cn[2] = "shi" THEN cn[1] = "ban"
    ELSE IF Len(cn) = 3 /\ Contains(cn, <<"shi">>)
         THEN <<"ban">> \in {SplitShi(cn)[1], SplitShi(cn)[2]}
    ELSE FALSE

\* sys.int_info.default_max_str_digits of CPython 3.11: int() converts a decimal
\* string of at most this many digits, leading zeros counted
default_max_str_digits == 4300

\* if cn.isdigit(): return int(cn) -- int raises ValueError on a digit that is no
\* decimal, and on more than default_max_str_digits digits
NumeralRaises(cn) ==
    /\ isdigit(cn)
    /\ \/ Len(cn) > default_max_str_digits
       \/ \E i \in 1..Len(cn) : cn[i] \notin Digits

\* FuzzyTimeParser._cn_to_num: an int, or the float h/2 kept as <<h, 2>>
_cn_to_num(cn) ==
    IF NumeralRaises(cn) THEN [kind |-> "raise", error |-> "ValueError"]
    ELSE IF isdigit(cn) THEN int(cn)
    ELSE IF CnIsFloat(cn) THEN <<CnToHalves(cn), 2>>
    ELSE CnToHalves(cn) \div 2

(***************************************************************************)
(* Results.  A sub-parser returns NoMatch (Python's None), a ParsedTime,   *)
(* or raises.  A value is a str or a list of str.                          *)
(***************************************************************************)

Str(a) == [list |-> FALSE, items |-> <<a>>]

List(a, b) == [list |-> TRUE, items |-> <<a, b>>]

NoMatch == [kind |-> "none"]

Raise(e) == [kind |-> "raise", error |-> e]

ParsedTime(v, r, d, e, c) ==
    [kind |-> "ok", value |-> v, is_range |-> r, is_date_only |-> d,
     original_expression |-> e, confidence |-> c]

\* timedelta(days=n) and date + timedelta: OverflowError outside these
DeltaOK(days) == days >= -MaxDeltaDays /\ days <= MaxDeltaDays

DateOK(ordinal) == ordinal >= 1 /\ ordinal <= MaxOrdinal

(***************************************************************************)
(* Relative day                                                            *)
(***************************************************************************)

day_map_flat == <<
    << <<"jin", "tian">>, 0 >>, << <<"jin", "ri">>, 0 >>,
    << <<"zuo", "tian">>, -1 >>, << <<"zuo", "ri">>, -1 >>,
    << <<"qian", "tian">>, -2 >>, << <<"qian", "ri">>, -2 >>,
    << <<"da", "qian", "tian">>, -2 >>,
    << <<"ming", "tian">>, 1 >>, << <<"ming", "ri">>, 1 >>,
    << <<"hou", "tian">>, 2 >>, << <<"hou", "ri">>, 2 >>,
    << <<"da", "hou", "tian">>, 2 >> >>

day_map == <<
    << <<"jin", "tian">>, 0 >>, << <<"jin", "ri">>, 0 >>,
    << <<"zuo", "tian">>, -1 >>, << <<"zuo", "ri">>, -1 >>,
    << <<"qian", "tian">>, -2 >>, << <<"qian", "ri">>, -2 >>,
    << <<"da", "qian", "tian">>, -3 >>,
    << <<"ming", "tian">>, 1 >>, << <<"ming", "ri">>, 1 >>,
    << <<"hou", "tian">>, 2 >>, << <<"hou", "ri">>, 2 >>,
    << <<"da", "hou", "tian">>, 3 >> >>

\* the first entry of a table (in dict order) whose key expr starts with; 0 if none
FirstPrefix(table, expr) == First({i \in 1..Len(table) : StartsWithAt(expr, table[i][1], 1)})

\* the first pattern <<unit, direction>> (in list order) that re.match finds:
\* (\d+|[cls]+) then the unit then 前 or 后; 0 if none
FirstPattern(patterns, expr, cls) ==
    First({i \in 1..Len(patterns) :
              /\ NumTokenLen(expr, 1, cls) > 0
              /\ StartsWithAt(expr, patterns[i][1], NumTokenLen(expr, 1, cls) + 1)})

\* self._cn_to_num(match.group(1)) of a numeral pattern
Numeral(expr, cls) == _cn_to_num(SubSeq(expr, 1, NumTokenLen(expr, 1, cls)))

\* timedelta(days=num * direction), timedelta(weeks=num * direction) of a decimal
\* numeral of more than nine digits after its leading zeros: above MaxDeltaDays
\* whatever the digits are, OverflowError
BeyondDelta(expr) == RunLen(expr, 1, Digits) - RunLen(expr, 1, {"0"}) > 9

day_patterns == <<
    << <<"tian", "qian">>, -1 >>, << <<"tian", "hou">>, 1 >>,
    << <<"ri", "qian">>, -1 >>, << <<"ri", "hou">>, 1 >> >>

\* self.now + timedelta(days=days), formatted date-only, as a point of confidence c
DayResult(expr, now, days, c) ==
    IF ~DeltaOK(days) \/ ~DateOK(now.date + days)
    THEN Raise("OverflowError")
    ELSE ParsedTime(Str(_format_datetime([now EXCEPT !.date = now.date + days], TRUE)),
                    FALSE, TRUE, expr, c)

RelativeDay(expr, now, k, p) ==
    IF k > 0 THEN DayResult(expr, now, day_map[k][2], 100)
    ELSE IF p > 0
    THEN \* num = self._cn_to_num(match.group(1)) raises before self.now is read
         IF NumeralRaises(SubSeq(expr, 1, NumTokenLen(expr, 1, CnClass)))
         THEN Numeral(expr, CnClass)
         ELSE IF BeyondDelta(expr) THEN Raise("OverflowError")
         ELSE DayResult(expr, now, Numeral(expr, CnClass) * day_patterns[p][2], 95)
    ELSE NoMatch

\* FuzzyTimeParser._parse_relative_day: the named table first, then the patterns
_parse_relative_day(expr, now) ==
    RelativeDay(expr, now, FirstPrefix(day_map, expr),
                FirstPattern(day_patterns, expr, CnClass))

(***************************************************************************)
(* Relative week                                                           *)
(***************************************************************************)

week_map == <<
    << <<"ben", "zhou">>, 0 >>, << <<"zhe", "zhou">>, 0 >>,
    << <<"shang", "zhou">>, -1 >>, << <<"shang", "yi", "zhou">>, -1 >>,
    << <<"shang", "shang", "zhou">>, -2 >>,
    << <<"xia", "zhou">>, 1 >>, << <<"xia", "yi", "zhou">>, 1 >>,
    << <<"xia", "xia", "zhou">>, 2 >> >>

\* 周前, 周后, 个?星期前, 个?星期后: the optional 个 gives each 星期 pattern two shapes
week_patterns == <<
    << <<"zhou", "qian">>, -1 >>, << <<"zhou", "hou">>, 1 >>,
    << <<"xing", "qi2", "qian">>, -1 >>, << <<"ge", "xing", "qi2", "qian">>, -1 >>,
    << <<"xing", "qi2", "hou">>, 1 >>, << <<"ge", "xing", "qi2", "hou">>, 1 >> >>

WeekResult_seven(expr, now, weeks, c) ==
    ParsedTime(List(FormatDate(now.date - weekday(now.date) + 7 * weeks),
                    FormatDate(now.date - weekday(now.date) + 7 * weeks + 7)),
               TRUE, TRUE, expr, c)

\* today - timedelta(days=today.weekday()) + timedelta(weeks=weeks) .. + 6 days
WeekFrom(expr, monday, weeks, c) ==
    IF weeks < -(MaxDeltaDays \div 7) \/ weeks > MaxDeltaDays \div 7
       \/ ~DateOK(monday) \/ ~DateOK(monday + 7 * weeks)
       \/ ~DateOK(monday + 7 * weeks + 6)
    THEN Raise("OverflowError")
    ELSE ParsedTime(List(FormatDate(monday + 7 * weeks),
                         FormatDate(monday + 7 * weeks + 6)),
                    TRUE, TRUE, expr, c)

WeekResult(expr, now, weeks, c) ==
    WeekFrom(expr, now.date - weekday(now.date), weeks, c)

RelativeWeek(expr, now, k, p) ==
    IF k > 0 THEN WeekResult(expr, now, week_map[k][2], 95)
    ELSE IF p > 0
    THEN IF NumeralRaises(SubSeq(expr, 1, NumTokenLen(expr, 1, CnClassLiang)))
         THEN Numeral(expr, CnClassLiang)
         ELSE IF BeyondDelta(expr) THEN Raise("OverflowError")
         ELSE WeekResult(expr, now, Numeral(expr, CnClassLiang) * week_patterns[p][2], 90)
    ELSE NoMatch

\* FuzzyTimeParser._parse_relative_week
_parse_relative_week(expr, now) ==
    RelativeWeek(expr, now, FirstPrefix(week_map, expr),
                 FirstPattern(week_patterns, expr, CnClassLiang))

(***************************************************************************)
(* Relative month                                                          *)
(***************************************************************************)

month_map == <<
    << <<"ben", "yue">>, 0 >>, << <<"zhe", "ge", "yue">>, 0 >>,
    << <<"shang", "ge", "yue">>, -1 >>, << <<"shang", "yue">>, -1 >>,
    << <<"xia", "ge", "yue">>, 1 >>, << <<"xia", "yue">>, 1 >> >>

\* 个?月前, 个?月后
month_patterns == <<
    << <<"ge", "yue", "qian">>, -1 >>, << <<"yue", "qian">>, -1 >>,
    << <<"ge", "yue", "hou">>, 1 >>, << <<"yue", "hou">>, 1 >> >>

\* while month < 1: month += 12; year -= 1 -- how often the body runs
LoopsUp(month) ==
    CHOOSE n \in 1..(1 - month) : month + 12 * n >= 1 /\ month + 12 * (n - 1) < 1

\* while month > 12: month -= 12; year += 1 -- how often the body runs
LoopsDown(month) ==
    CHOOSE n \in 1..month : month - 12 * n <= 12 /\ month - 12 * (n - 1) > 12

\* the two while loops: month into 1..12, the year carried
WrapMonth(year, month) ==
    IF month < 1 THEN <<year - LoopsUp(month), month + 12 * LoopsUp(month)>>
    ELSE IF month > 12 THEN <<year + LoopsDown(month), month - 12 * LoopsDown(month)>>
    ELSE <<year, month>>

MonthOf_reversed(expr, ym, c) ==
    ParsedTime(List(FormatYearMonthDay(ym[1], ym[2], monthrange(ym[1], ym[2])),
                    FormatYearMonthDay(ym[1], ym[2], 1)),
               TRUE, TRUE, expr, c)

\* the ParsedTime for the month ym = <<year, month>>
MonthOf(expr, ym, c) ==
    ParsedTime(List(FormatYearMonthDay(ym[1], ym[2], 1),
                    FormatYearMonthDay(ym[1], ym[2], monthrange(ym[1], ym[2]))),
               TRUE, TRUE, expr, c)

\* year = self.now.year; month = self.now.month + offset; the while loops
MonthResult(expr, now, offset, c) ==
    MonthOf(expr, WrapMonth(ord2ymd(now.date)[1], ord2ymd(now.date)[2] + offset), c)

RelativeMonth(expr, now, k, p) ==
    IF k > 0 THEN MonthResult(expr, now, month_map[k][2], 95)
    ELSE IF p > 0
    THEN IF NumeralRaises(SubSeq(expr, 1, NumTokenLen(expr, 1, CnClass)))
         THEN Numeral(expr, CnClass)
         ELSE MonthResult(expr, now, Numeral(expr, CnClass) * month_patterns[p][2], 85)
    ELSE NoMatch

\* FuzzyTimeParser._parse_relative_month
_parse_relative_month(expr, now) ==
    RelativeMonth(expr, now, FirstPrefix(month_map, expr),
                  FirstPattern(month_patterns, expr, CnClass))

(***************************************************************************)
(* Weekday                                                                 *)
(***************************************************************************)

WEEKDAYS_sunday == <<
    << <<"yi">>, 1 >>, << <<"er">>, 2 >>, << <<"san">>, 3 >>, << <<"si">>, 4 >>,
    << <<"wu">>, 5 >>, << <<"liu">>, 6 >>, << <<"ri">>, 0 >>, << <<"tian">>, 0 >> >>

WEEKDAYS == <<
    << <<"yi">>, 0 >>, << <<"er">>, 1 >>, << <<"san">>, 2 >>, << <<"si">>, 3 >>,
    << <<"wu">>, 4 >>, << <<"liu">>, 5 >>, << <<"ri">>, 6 >>, << <<"tian">>, 6 >> >>

\* (上上?|下下?|这)?, longest first, with the week offset each stands for
weekday_prefixes == <<
    << <<"shang", "shang">>, -2 >>, << <<"shang">>, -1 >>,
    << <<"xia", "xia">>, 2 >>, << <<"xia">>, 1 >>,
    << <<"zhe">>, 0 >>, << <<>>, 0 >> >>

weekday_words == << <<"zhou">>, <<"xing", "qi2">> >>

\* the ways (prefix)?(周|星期)([一二三四五六日天]) matches at the start of expr:
\* <<prefix index, position of the weekday character>>
WeekdayMatches(expr) ==
    {m \in (1..Len(weekday_prefixes)) \X (1..(Len(expr) + 1)) :
        \E w \in 1..Len(weekday_words) :
            /\ StartsWithAt(expr, weekday_prefixes[m[1]][1] \o weekday_words[w], 1)
            /\ m[2] = Len(weekday_prefixes[m[1]][1]) + Len(weekday_words[w]) + 1
            /\ m[2] <= Len(expr)
            /\ HasKey(WEEKDAYS, <<expr[m[2]]>>)}

\* target = today + timedelta(days=days_diff), formatted
WeekdayTarget(expr, target) ==
    IF ~DateOK(target) THEN Raise("OverflowError")
    ELSE ParsedTime(Str(FormatDate(target)), FALSE, TRUE, expr, 95)

\* days_diff = weekday - current_weekday + (week_offset * 7) for the match m
WeekdayAt(expr, now, m) ==
    WeekdayTarget(expr, now.date + Get(WEEKDAYS, <<expr[m[2]]>>, 0) - weekday(now.date)
                            + (weekday_prefixes[m[1]][2] * 7))

\* FuzzyTimeParser._parse_weekday
_parse_weekday(expr, now) ==
    IF WeekdayMatches(expr) = {} THEN NoMatch
    ELSE WeekdayAt(expr, now, CHOOSE x \in WeekdayMatches(expr) :
                                  \A y \in WeekdayMatches(expr) : x[1] <= y[1])

(***************************************************************************)
(* Time of day                                                             *)
(***************************************************************************)

\* (凌晨|早上|上午|中午|下午|晚上|深夜)
periods == <<
    <<"ling2", "chen">>, <<"zao", "shang">>, <<"shang", "wu2">>, <<"zhong", "wu2">>,
    <<"xia", "wu2">>, <<"wan", "shang">>, <<"shen", "ye">> >>

\* the period word at position i of expr: its index in periods, 0 if none
PeriodAt(expr, i) == First({k \in 1..Len(periods) : StartsWithAt(expr, periods[k], i)})

\* the position of the hour token when (period)?(hour)点 matches at position i, else 0
HourFrom(expr, j, n) ==
    IF n > 0 /\ j + n <= Len(expr) /\ expr[j + n] = "dian" THEN j ELSE 0

HourAt(expr, i) ==
    HourFrom(expr, IF PeriodAt(expr, i) > 0 THEN i + 2 ELSE i,
             NumTokenLen(expr, IF PeriodAt(expr, i) > 0 THEN i + 2 ELSE i, CnClass))

\* re.search: the leftmost position where the pattern matches, 0 if nowhere
TimeSearch(expr) == First({i \in 1..Len(expr) : HourAt(expr, i) > 0})

\* the hour after the period adjustment
AdjustHour(period, hour) ==
    IF period > 0 /\ periods[period] \in {<<"xia", "wu2">>, <<"wan", "shang">>} /\ hour < 12
    THEN hour + 12
    ELSE IF period > 0 /\ periods[period] = <<"ling2", "chen">> /\ hour = 12
    THEN 0
    ELSE hour

\* a decimal numeral above 2147483647, the largest C int: datetime() takes its
\* hour and minute as C ints and raises OverflowError on a larger number
BeyondInt(cn) ==
    /\ isdigit(cn)
    /\ \/ Len(cn) - RunLen(cn, 1, {"0"}) > 10
       \/ int(SubSeq(cn, 1, Len(cn) - 1)) > 214748364
       \/ int(SubSeq(cn, 1, Len(cn) - 1)) = 214748364 /\ DigitValue(cn[Len(cn)]) > 7

\* today = self.now.date(); datetime(today.year, today.month, today.day, hour,
\* minute), formatted: hour and minute are the matched numerals (minute <<>>: no
\* group, 0), the hour adjusted for the period; datetime() converts its arguments
\* (OverflowError) before it checks their ranges (ValueError)
TimeResult(expr, now, period, hour, minute) ==
    IF BeyondInt(hour) \/ BeyondInt(minute)
    THEN Raise("OverflowError")
    ELSE IF \/ AdjustHour(period, _cn_to_num(hour)) > 23
            \/ minute # <<>> /\ _cn_to_num(minute) > 59
    THEN Raise("ValueError")
    ELSE ParsedTime(Str(_format_datetime(
                            [date |-> now.date,
                             hour |-> AdjustHour(period, _cn_to_num(hour)),
                             minute |-> IF minute = <<>> THEN 0 ELSE _cn_to_num(minute)],
                            FALSE)),
                    FALSE, FALSE, expr, 90)

\* minute = self._cn_to_num(match.group(3)) if match.group(3) else 0: the minute
\* group, m characters from position k (m = 0: no group); the converter may raise
TimeMinute(expr, now, period, hour, k, m) ==
    IF NumeralRaises(SubSeq(expr, k, k + m - 1))
    THEN _cn_to_num(SubSeq(expr, k, k + m - 1))
    ELSE TimeResult(expr, now, period, hour, SubSeq(expr, k, k + m - 1))

\* hour = self._cn_to_num(match.group(2)): the hour group, n characters from
\* position j, after the period word; the converter may raise
TimeHour(expr, now, period, j, n) ==
    IF NumeralRaises(SubSeq(expr, j, j + n - 1))
    THEN _cn_to_num(SubSeq(expr, j, j + n - 1))
    ELSE TimeMinute(expr, now, period, SubSeq(expr, j, j + n - 1),
                    j + n + 1, NumTokenLen(expr, j + n + 1, CnClass))

\* whether the converter raises on the hour or the minute of the match whose hour
\* group is n characters from position j: self.now is read after both
TimeRefused(expr, j, n) ==
    \/ NumeralRaises(SubSeq(expr, j, j + n - 1))
    \/ NumeralRaises(SubSeq(expr, j + n + 1,
                            j + n + NumTokenLen(expr, j + n + 1, CnClass)))

TimeAt(expr, now, i) ==
    IF i = 0 THEN NoMatch
    ELSE TimeHour(expr, now, PeriodAt(expr, i), HourAt(expr, i),
                  NumTokenLen(expr, HourAt(expr, i), CnClass))

\* FuzzyTimeParser._parse_time_of_day
_parse_time_of_day(expr, now) == TimeAt(expr, now, TimeSearch(expr))

(***************************************************************************)
(* Specific date                                                           *)
(***************************************************************************)

\* (\d{4})年(\d{1,2})月(\d{1,2})[日号]? : <<year, month, day>>, <<>> if no match
FullDateWith(expr, n2) ==
    IF /\ RunLen(expr, 1, Digits) = 4
       /\ Len(expr) >= 5 /\ expr[5] = "nian"
       /\ n2 \in {1, 2}
       /\ Len(expr) >= 6 + n2 /\ expr[6 + n2] = "yue"
       /\ RunLen(expr, 7 + n2, Digits) >= 1
    THEN << int(SubSeq(expr, 1, 4)), int(SubSeq(expr, 6, 5 + n2)),
            int(SubSeq(expr, 7 + n2, 6 + n2 + Digits12Len(expr, 7 + n2))) >>
    ELSE <<>>

FullDate(expr) == FullDateWith(expr, RunLen(expr, 6, Digits))

\* (\d{1,2})月(\d{1,2})[日号]? : <<self.now.year, month, day>>
MonthDayWith(expr, year, n1) ==
    IF /\ n1 \in {1, 2}
       /\ Len(expr) >= n1 + 1 /\ expr[n1 + 1] = "yue"
       /\ RunLen(expr, n1 + 2, Digits) >= 1
    THEN << year, int(SubSeq(expr, 1, n1)), int(SubSeq(expr, n1 + 2, n1 + 1 + Digits12Len(expr, n1 + 2))) >>
    ELSE <<>>

MonthDay(expr, now) == MonthDayWith(expr, ord2ymd(now.date)[1], RunLen(expr, 1, Digits))

\* (\d{1,2})[日号] : <<self.now.year, self.now.month, day>>
DayOnlyWith(expr, ymd, n1) ==
    IF /\ n1 \in {1, 2}
       /\ Len(expr) >= n1 + 1 /\ expr[n1 + 1] \in {"ri", "hao"}
    THEN << ymd[1], ymd[2], int(SubSeq(expr, 1, n1)) >>
    ELSE <<>>

DayOnly(expr, now) == DayOnlyWith(expr, ord2ymd(now.date), RunLen(expr, 1, Digits))

\* the patterns whose extracted <<year, month, day>> datetime(...) accepts
GoodDates(extracted) ==
    {i \in 1..3 : /\ extracted[i] # <<>>
                  /\ ValidDate(extracted[i][1], extracted[i][2], extracted[i][3])}

SpecificDateOf(expr, d) ==
    ParsedTime(Str(FormatDate(ymd2ord(d[1], d[2], d[3]))), FALSE, TRUE, expr, 100)

SpecificDates(expr, extracted) ==
    IF GoodDates(extracted) = {} THEN NoMatch
    ELSE SpecificDateOf(expr, extracted[First(GoodDates(extracted))])

\* FuzzyTimeParser._parse_specific_date: the first pattern that matches and whose
\* date is valid
_parse_specific_date(expr, now) ==
    SpecificDates(expr, << FullDate(expr), MonthDay(expr, now), DayOnly(expr, now) >>)

(***************************************************************************)
(* Holidays                                                                *)
(***************************************************************************)

\* name, <<month, day, duration_days>>
SOLAR_HOLIDAYS == <<
    << <<"yuan", "dan">>, <<1, 1, 1>> >>,
    << <<"qing", "ren", "jie">>, <<2, 14, 1>> >>,
    << <<"fu", "nv", "jie">>, <<3, 8, 1>> >>,
    << <<"zhi2", "shu", "jie">>, <<3, 12, 1>> >>,
    << <<"yu", "ren", "jie">>, <<4, 1, 1>> >>,
    << <<"lao", "dong", "jie">>, <<5, 1, 5>> >>,
    << <<"wu", "yi">>, <<5, 1, 5>> >>,
    << <<"er2", "tong", "jie">>, <<6, 1, 1>> >>,
    << <<"jian", "dang", "jie">>, <<7, 1, 1>> >>,
    << <<"jian", "jun", "jie">>, <<8, 1, 1>> >>,
    << <<"jiao", "shi2", "jie">>, <<9, 10, 1>> >>,
    << <<"guo", "qing2">>, <<10, 1, 7>> >>,
    << <<"guo", "qing2", "jie">>, <<10, 1, 7>> >>,
    << <<"shuang", "shi", "yi">>, <<11, 11, 1>> >>,
    << <<"ping", "an", "ye">>, <<12, 24, 1>> >>,
    << <<"sheng", "dan2">>, <<12, 25, 1>> >>,
    << <<"sheng", "dan2", "jie">>, <<12, 25, 1>> >> >>

\* name, <<lunar_month, lunar_day, duration_days>>
LUNAR_HOLIDAYS == <<
    << <<"chun", "jie">>, <<1, 1, 7>> >>,
    << <<"guo2", "nian">>, <<1, 1, 7>> >>,
    << <<"da", "nian", "chu", "yi">>, <<1, 1, 1>> >>,
    << <<"chu2", "xi">>, <<12, 30, 1>> >>,
    << <<"nian", "san", "shi">>, <<12, 30, 1>> >>,
    << <<"yuan", "xiao">>, <<1, 15, 1>> >>,
    << <<"yuan", "xiao", "jie">>, <<1, 15, 1>> >>,
    << <<"long", "tai", "tou">>, <<2, 2, 1>> >>,
    << <<"duan", "wu2">>, <<5, 5, 3>> >>,
    << <<"duan", "wu2", "jie">>, <<5, 5, 3>> >>,
    << <<"qi", "xi">>, <<7, 7, 1>> >>,
    << <<"qi", "xi", "jie">>, <<7, 7, 1>> >>,
    << <<"zhong", "yuan">>, <<7, 15, 1>> >>,
    << <<"zhong", "yuan", "jie">>, <<7, 15, 1>> >>,
    << <<"zhong", "qiu">>, <<8, 15, 1>> >>,
    << <<"zhong", "qiu", "jie">>, <<8, 15, 1>> >>,
    << <<"chong", "yang">>, <<9, 9, 1>> >>,
    << <<"chong", "yang", "jie">>, <<9, 9, 1>> >>,
    << <<"la", "ba">>, <<12, 8, 1>> >>,
    << <<"la", "ba", "jie">>, <<12, 8, 1>> >>,
    << <<"xiao2", "nian">>, <<12, 23, 1>> >> >>

QINGMING_HOLIDAYS == { <<"qing3", "ming">>, <<"qing3", "ming", "jie">> }

qi_jian == <<"qi2", "jian2">>

\* the zhdate library's calendar: for a lunar year, the solar <<year, month, day>>
\* on which each of its twelve (non-leap) months begins
ZhMonthStart == <<
    << 2023, << <<2023, 1, 22>>, <<2023, 2, 20>>, <<2023, 4, 20>>, <<2023, 5, 19>>,
                <<2023, 6, 18>>, <<2023, 7, 18>>, <<2023, 8, 16>>, <<2023, 9, 15>>,
                <<2023, 10, 15>>, <<2023, 11, 13>>, <<2023, 12, 13>>, <<2024, 1, 11>> >> >>,
    << 2024, << <<2024, 2, 10>>, <<2024, 3, 10>>, <<2024, 4, 9>>, <<2024, 5, 8>>,
                <<2024, 6, 6>>, <<2024, 7, 6>>, <<2024, 8, 4>>, <<2024, 9, 3>>,
                <<2024, 10, 3>>, <<2024, 11, 1>>, <<2024, 12, 1>>, <<2024, 12, 31>> >> >>,
    << 2025, << <<2025, 1, 29>>, <<2025, 2, 28>>, <<2025, 3, 29>>, <<2025, 4, 28>>,
                <<2025, 5, 27>>, <<2025, 6, 25>>, <<2025, 8, 23>>, <<2025, 9, 22>>,
                <<2025, 10, 21>>, <<2025, 11, 20>>, <<2025, 12, 20>>, <<2026, 1, 19>> >> >> >>

\* ZhDate(year, lunar_month, lunar_day).to_datetime() as a date: <<ordinal>>,
\* or <<>> when the library raises (a year outside its tables)
ZhDay(s, lunar_day) == << ymd2ord(s[1], s[2], s[3]) + lunar_day - 1 >>

ZhDate(year, lunar_month, lunar_day) ==
    IF HasKey(ZhMonthStart, year)
    THEN ZhDay(Get(ZhMonthStart, year, <<>>)[lunar_month], lunar_day)
    ELSE <<>>

\* FuzzyTimeParser._lunar_to_solar: <<ordinal>>, or <<>> for None.
\* zh is the outcome of "from zhdate import ZhDate": "ok" or "absent".
DayBefore(d) == IF d = <<>> THEN <<>> ELSE << d[1] - 1 >>

_lunar_to_solar_literal(zh, year, lunar_month, lunar_day) ==
    IF zh # "ok" \/ ~HasKey(ZhMonthStart, year) THEN << ymd2ord(year, lunar_month, lunar_day) >>
    ELSE IF lunar_month = 12 /\ lunar_day >= 29 THEN DayBefore(ZhDate(year, 1, 1))
    ELSE ZhDate(year, lunar_month, lunar_day)

_lunar_to_solar(zh, year, lunar_month, lunar_day) ==
    IF zh # "ok" THEN <<>>
    ELSE IF lunar_month = 12 /\ lunar_day >= 29 THEN DayBefore(ZhDate(year, 1, 1))
    ELSE ZhDate(year, lunar_month, lunar_day)

_create_holiday_result_long(holiday_date, duration, expr) ==
    IF duration > 1
    THEN ParsedTime(List(FormatDate(holiday_date), FormatDate(holiday_date + duration - 1)),
                    TRUE, TRUE, expr, 95)
    ELSE ParsedTime(Str(FormatDate(holiday_date)), FALSE, TRUE, expr, 95)

\* FuzzyTimeParser._create_holiday_result
_create_holiday_result(holiday_date, duration, expr) ==
    IF duration > 1 \/ Contains(expr, qi_jian)
    THEN ParsedTime(List(FormatDate(holiday_date), FormatDate(holiday_date + duration - 1)),
                    TRUE, TRUE, expr, 95)
    ELSE ParsedTime(Str(FormatDate(holiday_date)), FALSE, TRUE, expr, 95)

\* the entries of a holiday table whose name occurs in expr, in dict order
HolidaysIn(table, expr) == {i \in 1..Len(table) : Contains(expr, table[i][1])}

\* the lunar holidays named in expr that the adapter converts
LunarConverted(expr, year, zh) ==
    {i \in HolidaysIn(LUNAR_HOLIDAYS, expr) :
        _lunar_to_solar(zh, year, LUNAR_HOLIDAYS[i][2][1], LUNAR_HOLIDAYS[i][2][2]) # <<>>}

\* whether _parse_holiday(expr) reaches the import of zhdate
ImportsZhdate(expr) ==
    HolidaysIn(SOLAR_HOLIDAYS, expr) = {} /\ HolidaysIn(LUNAR_HOLIDAYS, expr) # {}

SolarHoliday(expr, year, h) ==
    _create_holiday_result(ymd2ord(year, h[1], h[2]), h[3], expr)

LunarHoliday(expr, year, zh, h) ==
    _create_holiday_result(_lunar_to_solar(zh, year, h[1], h[2])[1], h[3], expr)

QingmingHoliday(expr, year) ==
    _create_holiday_result(ymd2ord(year, 4, IF _is_leap_year(year) THEN 4 ELSE 5),
                           IF Contains(expr, qi_jian) THEN 3 ELSE 1, expr)

\* the three steps of _parse_holiday, given the first solar holiday named in expr
\* and the first lunar one that converts (0: none)
HolidayOf(expr, year, zh, solar, lunar) ==
    IF solar # 0 THEN SolarHoliday(expr, year, SOLAR_HOLIDAYS[solar][2])
    ELSE IF lunar # 0 THEN LunarHoliday(expr, year, zh, LUNAR_HOLIDAYS[lunar][2])
    ELSE IF \E qm \in QINGMING_HOLIDAYS : Contains(expr, qm) THEN QingmingHoliday(expr, year)
    ELSE NoMatch

\* FuzzyTimeParser._parse_holiday
_parse_holiday(expr, now, zh) ==
    HolidayOf(expr, ord2ymd(now.date)[1], zh, First(HolidaysIn(SOLAR_HOLIDAYS, expr)),
              First(LunarConverted(expr, ord2ymd(now.date)[1], zh)))

(***************************************************************************)
(* The range composer and the dispatch cascade                             *)
(***************************************************************************)

\* one sub-parser, by name
Apply(name, expr, now, zh) ==
    CASE name = "holiday"        -> _parse_holiday(expr, now, zh)
      [] name = "relative_day"   -> _parse_relative_day(expr, now)
      [] name = "weekday"        -> _parse_weekday(expr, now)
      [] name = "relative_week"  -> _parse_relative_week(expr, now)
      [] name = "relative_month" -> _parse_relative_month(expr, now)
      [] name = "time_of_day"    -> _parse_time_of_day(expr, now)
      [] name = "specific_date"  -> _parse_specific_date(expr, now)

parsers_week_first == <<"range", "holiday", "relative_day", "relative_week", "weekday",
                        "relative_month", "time_of_day", "specific_date">>

\* the list "parsers" of parse
parsers == <<"range", "holiday", "relative_day", "weekday", "relative_week",
             "relative_month", "time_of_day", "specific_date">>

\* the list "parsers" of _parse_single
single_parsers == <<"holiday", "relative_day", "relative_week", "relative_month",
                    "time_of_day", "specific_date", "weekday">>

\* what _parse_single makes of the first result that is not None
SingleResult(result) ==
    IF result.kind # "ok" THEN result
    ELSE [kind |-> "ok",
          val |-> result.value.items[1],     \* the str itself, or the list's first element
          is_date_only |-> result.is_date_only,
          confidence |-> result.confidence]

\* the results of the sub-parsers of _parse_single up to the first that is not None
SingleFirst(results) ==
    IF \A i \in 1..Len(results) : results[i].kind = "none" THEN NoMatch
    ELSE SingleResult(results[First({i \in 1..Len(results) : results[i].kind # "none"})])

\* FuzzyTimeParser._parse_single: NoMatch, a raise, or (val, is_date_only, confidence)
_parse_single(expr, now, zh) ==
    SingleFirst([i \in 1..Len(single_parsers) |-> Apply(single_parsers[i], expr, now, zh)])

\* range_patterns: <<marker before the start, separator>>
range_patterns == << <<"", "dao">>, <<"", "zhi">>, <<"", "-">>, <<"", "~">>,
                     <<"cong", "dao">> >>

\* re.match of range pattern k, (.+?)sep(.+) behind the marker: the two groups,
\* stripped; <<>> if it does not match
SepAt(expr, k, lead) ==
    First({i \in (lead + 2)..(Len(expr) - 1) : expr[i] = range_patterns[k][2]})

RangeSplitAt(expr, k, lead, i) ==
    IF i = 0 \/ (lead = 1 /\ expr[1] # range_patterns[k][1]) THEN <<>>
    ELSE << strip(SubSeq(expr, lead + 1, i - 1)), strip(SubSeq(expr, i + 1, Len(expr))) >>

RangeSplit(expr, k) ==
    RangeSplitAt(expr, k, IF range_patterns[k][1] = "" THEN 0 ELSE 1,
                 SepAt(expr, k, IF range_patterns[k][1] = "" THEN 0 ELSE 1))

\* the first range pattern from k on that matches expr; 0 if none
NextRangePattern(expr, k) ==
    First({i \in k..Len(range_patterns) : RangeSplit(expr, i) # <<>>})

RangeResult_end(expr, start_result, end_result) ==
    ParsedTime(List(start_result.val, end_result.val),
               TRUE,
               end_result.is_date_only,
               expr,
               end_result.confidence)

\* the ParsedTime _parse_range builds from two parsed halves
RangeResult(expr, start_result, end_result) ==
    ParsedTime(List(start_result.val, end_result.val),
               TRUE,
               start_result.is_date_only /\ end_result.is_date_only,
               expr,
               IF start_result.confidence <= end_result.confidence
               THEN start_result.confidence ELSE end_result.confidence)

Fallback_sure(expr, now) ==
    ParsedTime(Str(FormatDate(now.date)), FALSE, TRUE, expr, 100)

\* the fallback of parse
Fallback(expr, now) ==
    ParsedTime(Str(FormatDate(now.date)), FALSE, TRUE, expr, 30)

\* whether sub-parser name evaluates self.now on expr: the relative sub-parsers
\* convert the numeral first, and a ValueError of theirs is the converter's
ReadsNow(name, expr, result) ==
    CASE name = "holiday" -> TRUE
      [] name = "specific_date" ->
            /\ \/ FullDate(expr) = <<>>
               \/ ~ValidDate(FullDate(expr)[1], FullDate(expr)[2], FullDate(expr)[3])
            /\ \/ MonthDay(expr, [date |-> 1]) # <<>>
               \/ DayOnly(expr, [date |-> 1]) # <<>>
      [] name \in {"relative_day", "relative_week", "relative_month"} ->
            result.kind # "none" /\ result # Raise("ValueError")
      [] name = "time_of_day" ->
            /\ result.kind # "none"
            /\ ~TimeRefused(expr, HourAt(expr, TimeSearch(expr)),
                            NumTokenLen(expr, HourAt(expr, TimeSearch(expr)), CnClass))
      [] OTHER -> result.kind # "none"

(***************************************************************************)
(* The program: parser instances, callers, the clock.                      *)
(***************************************************************************)

\* the zone database seen through ZoneInfo(timezone): name, UTC offset in hours;
\* any other name raises ZoneInfoNotFoundError
ZONES == << <<"Asia/Shanghai", 8>>, <<"UTC", 0>> >>

Timezones == {"Asia/Shanghai", "UTC", "Invalid/Timezone"}

Callers == {1, 2}

\* the parser a caller shares with others, and the one the handler builds per request
Shared == <<"shared", 0>>

HandlerParser(c) == <<"request", c>>

Parsers == {Shared} \cup {HandlerParser(c) : c \in Callers}

\* datetime.now(self.tz)
SystemNow(p) ==
    [date |-> ((clock + tz[p]) \div 24) + 1, hour |-> (clock + tz[p]) % 24, minute |-> 0]

Now_uncached(p) == SystemNow(p)

\* the property "now"
Now(p) == IF _now[p] = <<>> THEN SystemNow(p) ELSE _now[p][1]

Idle ==
    [pc |-> "idle", via |-> "", timezone |-> "", parser |-> Shared,
     expression |-> <<>>, expr |-> <<>>,
     idx |-> 0, pat |-> 0, half |-> 0, start_result |-> NoMatch,
     consulted |-> <<>>, seen |-> {}, reads |-> <<>>, got |-> <<>>]

NoResult == [kind |-> "pending"]

\* ParseTimeOutput(...).model_dump()
Output(success, parsed, error) ==
    [kind |-> "output", success |-> success, parsed |-> parsed, error |-> error]

Deliver_uncaught(c, result) ==
    IF call[c].via = "handler" /\ result.kind # "raise"
    THEN Output(TRUE, <<result>>, <<>>)
    ELSE result

\* what the caller gets when parse returns or raises result
Deliver(c, result) ==
    IF call[c].via = "handler"
    THEN IF result.kind = "raise"
         THEN Output(FALSE, <<>>, <<result.error>>)
         ELSE Output(TRUE, <<result>>, <<>>)
    ELSE result

\* parse returns (or raises) result
Finish(c, result, consulted, seen) ==
    /\ call' = [call EXCEPT ![c].pc = "done", ![c].consulted = consulted, ![c].seen = seen]
    /\ out' = [out EXCEPT ![c] = Deliver(c, result)]

\* what "from zhdate import ZhDate" can do in a step that may reach it
ZhOutcomes(imports) ==
    IF zhdate # "unknown" THEN {zhdate}
    ELSE IF imports THEN {"ok", "absent"}
    ELSE {"absent"}

\* the effect on the parser of a step of caller c that evaluates self.now (reads),
\* and on the library of one that imports zhdate with outcome zh; the parser is
\* used by this caller alone while the call lasts (see NowStep for threads)
ReadNow(c, zh, reads, imports) ==
    /\ _now' = IF reads THEN [_now EXCEPT ![call[c].parser] = <<Now(call[c].parser)>>]
               ELSE _now
    /\ zhdate' = IF imports THEN zh ELSE zhdate

\* the system clock advances by an hour
Tick ==
    /\ ticks < MaxTicks
    /\ clock' = clock + 1
    /\ ticks' = ticks + 1
    /\ UNCHANGED <<zhdate, _now, tz, call, out, ncalls>>

\* a caller uses the shared FuzzyTimeParser: parser.parse(e), alone (use "direct")
\* or as one thread among others (use "thread"); the property parser.now; or
\* parser.reset_now()
UserCall(c, use, e) ==
    /\ call[c].pc \in {"idle", "done"}
    /\ IF use = "reset_now"
       THEN /\ _now[Shared] # <<>>
            /\ _now' = [_now EXCEPT ![Shared] = <<>>]
            /\ UNCHANGED <<call, out, ncalls>>
       ELSE /\ ncalls < MaxCalls
            /\ call' = [call EXCEPT ![c] =
                           [Idle EXCEPT !.pc = IF use = "now" THEN "now" ELSE "parse",
                                        !.via = use, !.parser = Shared, !.expression = e]]
            /\ out' = [out EXCEPT ![c] = NoResult]
            /\ ncalls' = ncalls + 1
            /\ _now' = _now
    /\ UNCHANGED <<clock, zhdate, tz, ticks>>

\* _parse_time_handler(e, timezone) up to the call of parse:
\* FuzzyTimeParser(timezone=timezone), whose ZoneInfo(timezone) may raise
HandlerCall(c, e, timezone) ==
    /\ call[c].pc \in {"idle", "done"}
    /\ ncalls < MaxCalls
    /\ ncalls' = ncalls + 1
    /\ IF HasKey(ZONES, timezone)
       THEN /\ tz' = [tz EXCEPT ![HandlerParser(c)] = Get(ZONES, timezone, 0)]
            /\ _now' = [_now EXCEPT ![HandlerParser(c)] = <<>>]
            /\ call' = [call EXCEPT ![c] =
                           [Idle EXCEPT !.pc = "parse", !.via = "handler",
                                        !.timezone = timezone,
                                        !.parser = HandlerParser(c), !.expression = e]]
            /\ out' = [out EXCEPT ![c] = NoResult]
       ELSE /\ call' = [call EXCEPT ![c] =
                           [Idle EXCEPT !.pc = "done", !.via = "handler",
                                        !.timezone = timezone,
                                        !.parser = HandlerParser(c), !.expression = e]]
            /\ out' = [out EXCEPT ![c] = Output(FALSE, <<>>, <<"ZoneInfoNotFoundError">>)]
            /\ UNCHANGED <<tz, _now>>
    /\ UNCHANGED <<clock, zhdate, ticks>>

\* parse: self.reset_now(); expression = expression.strip()
ParseEnter(c) ==
    /\ call[c].pc = "parse"
    /\ _now' = [_now EXCEPT ![call[c].parser] = <<>>]
    /\ call' = IF call[c].via = "thread"
               \* followed one evaluation of self.now at a time: _parse_range is at
               \* its first pattern that matches, or parse past it at _parse_holiday
               THEN [call EXCEPT ![c].pc = "now", ![c].expr = strip(call[c].expression),
                                 ![c].pat = NextRangePattern(strip(call[c].expression), 1),
                                 ![c].half = 1,
                                 ![c].idx = IF NextRangePattern(strip(call[c].expression), 1) > 0
                                            THEN 1 ELSE 2]
               ELSE [call EXCEPT ![c].pc = "range", ![c].expr = strip(call[c].expression),
                                 ![c].pat = 1, ![c].half = 1]
    /\ UNCHANGED <<clock, zhdate, tz, out, ticks, ncalls>>

\* a half h of range pattern k parsed to result, now being the instant read
RangeParsed(c, k, h, zh, now, result) ==
    /\ ReadNow(c, zh, TRUE, ImportsZhdate(h))
    /\ IF result.kind = "raise"
       THEN Finish(c, result, Append(call[c].consulted, parsers[1]), call[c].seen \cup {now})
       ELSE IF call[c].half = 1
       THEN /\ call' = [call EXCEPT ![c].pat = k, ![c].half = 2,
                                    ![c].start_result = result,
                                    ![c].seen = call[c].seen \cup {now}]
            /\ out' = out
       ELSE IF call[c].start_result.kind = "ok" /\ result.kind = "ok"
       THEN Finish(c, RangeResult(call[c].expr, call[c].start_result, result),
                   Append(call[c].consulted, parsers[1]), call[c].seen \cup {now})
       ELSE /\ call' = [call EXCEPT ![c].pat = k + 1, ![c].half = 1,
                                    ![c].start_result = NoMatch,
                                    ![c].seen = call[c].seen \cup {now}]
            /\ out' = out

RangeHalf(c, k, h) ==
    \E zh \in ZhOutcomes(ImportsZhdate(h)) :
        RangeParsed(c, k, h, zh, Now(call[c].parser), _parse_single(h, Now(call[c].parser), zh))

RangeAt(c, k) ==
    IF k = 0
    THEN /\ call' = [call EXCEPT ![c].pc = "cascade", ![c].idx = 2,
                                 ![c].consulted = Append(call[c].consulted, parsers[1])]
         /\ UNCHANGED <<zhdate, _now, out>>
    ELSE RangeHalf(c, k, RangeSplit(call[c].expr, k)[call[c].half])

\* _parse_range, one _parse_single at a time: the next pattern that matches, then
\* its start half, then its end half; when no pattern is left, on to the cascade
\* (a call that has the parser to itself: "direct" or through the handler)
RangeStep(c) ==
    /\ call[c].pc = "range"
    /\ RangeAt(c, NextRangePattern(call[c].expr, call[c].pat))
    /\ UNCHANGED <<clock, tz, ticks, ncalls>>

\* sub-parser name returned result (or None, or raised), now being the instant it
\* read if reads
Consulted(c, name, zh, now, result, reads) ==
    /\ ReadNow(c, zh, reads, name = "holiday" /\ ImportsZhdate(call[c].expr))
    /\ IF result.kind = "none"
       THEN /\ call' = [call EXCEPT ![c].idx = call[c].idx + 1,
                                    ![c].consulted = Append(call[c].consulted, name),
                                    ![c].seen = IF reads THEN call[c].seen \cup {now}
                                                ELSE call[c].seen]
            /\ out' = out
       ELSE Finish(c, result, Append(call[c].consulted, name),
                   IF reads THEN call[c].seen \cup {now} ELSE call[c].seen)

ConsultResult(c, name, zh, now, result) ==
    Consulted(c, name, zh, now, result, ReadsNow(name, call[c].expr, result))

ConsultNamed(c, name, now) ==
    \E zh \in ZhOutcomes(name = "holiday" /\ ImportsZhdate(call[c].expr)) :
        ConsultResult(c, name, zh, now, Apply(name, call[c].expr, now, zh))

ConsultAt(c, now) ==
    IF call[c].idx > Len(parsers)
    THEN /\ ReadNow(c, zhdate, TRUE, FALSE)
         /\ Finish(c, Fallback(call[c].expr, now), call[c].consulted, call[c].seen \cup {now})
    ELSE ConsultNamed(c, parsers[call[c].idx], now)

\* the loop of parse consults the next sub-parser; after the last, the fallback
\* (a call that has the parser to itself: "direct" or through the handler)
Consult(c) ==
    /\ call[c].pc = "cascade"
    /\ ConsultAt(c, Now(call[c].parser))
    /\ UNCHANGED <<clock, tz, ticks, ncalls>>

(***************************************************************************)
(* The same parse, and the property now, one bytecode of the property at a *)
(* time: what a thread does on a parser another thread may be using.       *)
(***************************************************************************)

\* sub-parser name (or the fallback of parse) on text, when the evaluations of
\* self.now it makes return rest in order (<<>>: None, <<t>>: the instant t):
\* <<its result, how many evaluations it made>>; the result is of kind "await" when
\* it makes one more than rest holds
Evaluate(name, text, rest, zh) ==
    LET at == [date |-> ymd2ord(2024, 1, 15), hour |-> 0, minute |-> 0]
        n == CASE name \in {"fallback", "holiday"} -> 1
               [] name = "specific_date" ->
                     IF ~ReadsNow(name, text, NoMatch) THEN 0
                     ELSE IF MonthDay(text, at) # <<>> THEN 1 ELSE 2
               [] name = "relative_month" ->
                     IF ~ReadsNow(name, text, Apply(name, text, at, "absent")) THEN 0 ELSE 2
               [] OTHER ->
                     IF ~ReadsNow(name, text, Apply(name, text, at, "absent")) THEN 0 ELSE 1
        days == IF FirstPrefix(day_map, text) > 0
                THEN day_map[FirstPrefix(day_map, text)][2]
                ELSE IF BeyondDelta(text) THEN MaxDeltaDays + 1
                ELSE Numeral(text, CnClass)
                         * day_patterns[FirstPattern(day_patterns, text, CnClass)][2]
        \* None + timedelta(days=days), None.year, None.date(), None.strftime
        missing == IF name # "relative_day" THEN "AttributeError"
                   ELSE IF ~DeltaOK(days) THEN "OverflowError" ELSE "TypeError"
    IN  IF rest = <<>>
        THEN IF n = 0 THEN << Apply(name, text, at, zh), 0 >> ELSE << [kind |-> "await"], 0 >>
        ELSE IF rest[1] = <<>> THEN << Raise(missing), 1 >>
        ELSE IF Len(rest) = 1
        THEN IF n = 2
             THEN << [kind |-> "await"], 0 >>
             ELSE << IF name = "fallback" THEN Fallback(text, rest[1][1])
                     ELSE Apply(name, text, rest[1][1], zh), 1 >>
        ELSE IF rest[2] = <<>> THEN << Raise("AttributeError"), 2 >>
        \* self.now.year of the first evaluation, self.now.month of the second
        ELSE << Apply(name, text,
                      [at EXCEPT !.date = ymd2ord(ord2ymd(rest[1][1].date)[1],
                                                  ord2ymd(rest[2][1].date)[2], 1)],
                      zh), 2 >>

\* parse(expr) from sub-parser j of half "half" of range pattern k (k = 0: from
\* entry j of the list "parsers", 9 being the fallback), start being the first half
\* parsed, when the evaluations of self.now the sub-parser in hand has made
\* returned rest: a record of kind "await", with the place parse is at, when it
\* makes another, else of kind "end" with what parse returns or raises and the
\* entries of "parsers" it called
RECURSIVE Progress(_, _, _, _, _, _, _), ProgressWith(_, _, _, _, _, _, _)

Progress(expr, rest, zh, k, half, j, start) ==
    ProgressWith(expr, zh, k, half, j, start,
                 IF k > 0 THEN Evaluate(single_parsers[j], RangeSplit(expr, k)[half], rest, zh)
                 ELSE IF j <= Len(parsers) THEN Evaluate(parsers[j], expr, rest, zh)
                 ELSE Evaluate("fallback", expr, rest, zh))

\* what follows the step made by the sub-parser in hand
ProgressWith(expr, zh, k, half, j, start, step) ==
    LET called == IF k > 0 THEN <<parsers[1]>>
                  ELSE IF j <= Len(parsers) THEN SubSeq(parsers, 1, j) ELSE parsers
        onward == NextRangePattern(expr, k + 1)
    IN  IF step[1].kind = "await"
        THEN [kind |-> "await", pat |-> k, half |-> half, idx |-> j, start_result |-> start]
        ELSE IF k = 0
        THEN IF step[1].kind = "none"
             THEN Progress(expr, <<>>, zh, 0, half, j + 1, start)
             ELSE [kind |-> "end", result |-> step[1], consulted |-> called]
        ELSE IF step[1].kind = "raise"
        THEN [kind |-> "end", result |-> step[1], consulted |-> called]
        ELSE IF step[1].kind = "none" /\ j < Len(single_parsers)
        THEN Progress(expr, <<>>, zh, k, half, j + 1, start)
        ELSE IF half = 1
        THEN Progress(expr, <<>>, zh, k, 2, 1, SingleResult(step[1]))
        ELSE IF start.kind = "ok" /\ step[1].kind = "ok"
        THEN [kind |-> "end", result |-> RangeResult(expr, start, SingleResult(step[1])),
              consulted |-> called]
        ELSE IF onward > 0
        THEN Progress(expr, <<>>, zh, onward, 1, 1, NoMatch)
        ELSE Progress(expr, <<>>, zh, 0, 1, 2, NoMatch)

\* one step of the property now evaluated by caller c on its parser: the test of
\* self._now with the clock read when it is None; the store of the instant read;
\* the load of self._now that is returned, with all that parse does from it up to
\* its next evaluation of the property, or to its end
NowStep(c) ==
    LET p == call[c].parser
        v == _now[p]
        seen == call[c].seen \cup {v[i] : i \in 1..Len(v)}
        \* the evaluation is that of _parse_holiday, which goes on to import zhdate
        imports == /\ v # <<>>
                   /\ call[c].reads = <<>>
                   /\ IF call[c].pat > 0
                      THEN /\ single_parsers[call[c].idx] = "holiday"
                           /\ ImportsZhdate(RangeSplit(call[c].expr, call[c].pat)[call[c].half])
                      ELSE /\ call[c].idx = 2
                           /\ ImportsZhdate(call[c].expr)
    IN  /\ call[c].pc \in {"now", "store", "load"}
        /\ UNCHANGED <<clock, tz, ticks, ncalls>>
        /\ CASE call[c].pc = "now" ->
                   /\ call' = IF v = <<>>
                              THEN [call EXCEPT ![c].pc = "store", ![c].got = <<SystemNow(p)>>]
                              ELSE [call EXCEPT ![c].pc = "load"]
                   /\ UNCHANGED <<zhdate, _now, out>>
             [] call[c].pc = "store" ->
                   /\ _now' = [_now EXCEPT ![p] = call[c].got]
                   /\ call' = [call EXCEPT ![c].pc = "load", ![c].got = <<>>]
                   /\ UNCHANGED <<zhdate, out>>
             [] call[c].pc = "load" /\ call[c].via = "now" ->
                   /\ Finish(c, [kind |-> "now", value |-> v], <<>>, seen)
                   /\ UNCHANGED <<zhdate, _now>>
             [] call[c].pc = "load" /\ call[c].via # "now" ->
                   /\ _now' = _now
                   /\ \E zh \in ZhOutcomes(imports) :
                      \E after \in {Progress(call[c].expr, Append(call[c].reads, v), zh,
                                             call[c].pat, call[c].half, call[c].idx,
                                             call[c].start_result)} :
                          /\ zhdate' = IF imports THEN zh ELSE zhdate
                          /\ IF after.kind = "await"
                             THEN /\ call' = [call EXCEPT
                                                 ![c].pc = "now", ![c].seen = seen,
                                                 ![c].reads = IF after.idx = call[c].idx
                                                                   /\ after.half = call[c].half
                                                                   /\ after.pat = call[c].pat
                                                              THEN Append(call[c].reads, v)
                                                              ELSE <<>>,
                                                 ![c].pat = after.pat, ![c].half = after.half,
                                                 ![c].idx = after.idx,
                                                 ![c].start_result = after.start_result]
                                  /\ out' = out
                             ELSE Finish(c, after.result, after.consulted, seen)

(***************************************************************************)
(* Inputs                                                                  *)
(***************************************************************************)

\* str(n)
RECURSIVE DigitsOf(_)
DigitsOf(n) == IF n < 10 THEN <<ToString(n)>> ELSE DigitsOf(n \div 10) \o <<ToString(n % 10)>>

\* dates on which one call is made, of a date or holiday expression: the last day
\* of a 30-day month, and a day of a year the lunar library has no table for
SideDates == {ymd2ord(2024, 4, 30), ymd2ord(2101, 6, 15)}

\* the clock starts at 15:00 UTC (23:00 in Shanghai) of a day of the week from
\* Monday 2024-02-26 on, of 2024-01-15, of 2023-12-31 or of a side date
StartDates ==
    {ymd2ord(2024, 2, 26) + i : i \in 0..(NumDays - 1)}
        \cup {ymd2ord(2024, 1, 15), ymd2ord(2023, 12, 31)} \cup SideDates

CnNumerals == { <<"san">>, <<"shi">>, <<"shi", "wu">>, <<"er", "shi">>,
                <<"er", "shi", "san">>, <<"liang">> }

DayExpressions ==
    {day_map[i][1] : i \in 1..Len(day_map)}
        \cup {n \o day_patterns[i][1] : n \in {DigitsOf(d) : d \in 0..MaxNumeral}, i \in 1..Len(day_patterns)}
        \cup {n \o u : n \in CnNumerals, u \in {<<"tian", "qian">>, <<"ri", "hou">>}}
        \cup { DigitsOf(1000000000) \o <<"tian", "hou">> }

WeekdayExpressions ==
    {weekday_prefixes[i][1] \o <<"zhou">> \o x : i \in 1..Len(weekday_prefixes), 
              x \in {WEEKDAYS[i][1] : i \in 1..Len(WEEKDAYS)}}
        \cup {weekday_prefixes[i][1] \o <<"xing", "qi2">> \o x :
                 i \in 1..Len(weekday_prefixes), x \in {<<"er">>, <<"tian">>}}

WeekExpressions ==
    {week_map[i][1] : i \in 1..Len(week_map)}
        \cup {n \o u : n \in {<<"1">>, <<"2">>, <<"liang">>, <<"san">>, <<"shi">>},
                       u \in {<<"zhou", "qian">>, <<"zhou", "hou">>,
                              <<"xing", "qi2", "qian">>, <<"ge", "xing", "qi2", "hou">>}}

MonthExpressions ==
    {month_map[i][1] : i \in 1..Len(month_map)}
        \cup {n \o u : n \in {<<"1">>, <<"3">>, <<"1", "2">>, <<"1", "3">>, <<"2", "5">>,
                              <<"9", "1", "2">>, <<"2", "8", "8">>, <<"san">>, <<"shi", "er">>,
                              <<"liang">>},
                       u \in {<<"ge", "yue", "qian">>, <<"ge", "yue", "hou">>}}
        \cup { <<"3", "yue", "qian">>, <<"3", "yue", "hou">> }

TimeExpressions == {
    <<"xia", "wu2", "3", "dian", "3", "0", "fen">>,
    <<"shang", "wu2", "9", "dian">>,
    <<"ling2", "chen", "1", "2", "dian">>,
    <<"wan", "shang", "8", "dian", "ban">>,
    <<"shi", "er", "dian", "san", "shi", "fen">>,
    <<"2", "5", "dian">>,
    <<"xia", "wu2", "3", "dian", "9", "9", "fen">>,
    <<"2", "1", "4", "7", "4", "8", "3", "6", "4", "8", "dian">>,
    <<"2", "5", "dian", "2", "1", "4", "7", "4", "8", "3", "6", "4", "8", "fen">>,
    <<"wan", "shang", "8", "dian">>,
    <<"xia", "wu2", "1", "2", "dian">>,
    <<"9", "dian", "5">>,
    <<"xia", "wu2", "liang", "dian">>,
    <<"xia", "wu2", "san", "dian">> }

DateExpressions == {
    <<"2", "0", "2", "4", "nian", "1", "yue", "1", "ri">>,
    <<"1", "yue", "2", "0", "ri">>,
    <<"2", "0", "hao">>,
    <<"3", "1", "ri">>,
    <<"2", "yue", "3", "0", "ri">>,
    <<"3", "2", "ri">>,
    <<"2", "0", "2", "4", "nian", "1", "3", "yue", "1", "ri">> }

HolidayExpressions == {
    <<"guo", "qing2", "jie">>,
    <<"guo", "qing2", "jie", "qi2", "jian2">>,
    <<"yuan", "dan">>,
    <<"yuan", "dan", "qi2", "jian2">>,
    <<"lao", "dong", "jie">>,
    <<"qing3", "ming", "jie">>,
    <<"qing3", "ming", "qi2", "jian2">>,
    <<"chun", "jie">>,
    <<"chu2", "xi">>,
    <<"zhong", "qiu", "jie">>,
    <<"chun", "jie", "yuan", "dan">>,
    <<"chun", "jie", "shang", "wu2", "9", "dian">> }

RangeExpressions == {
    <<"zuo", "tian", "dao", "jin", "tian">>,
    <<"zuo", "tian", "zhi", "jin", "tian">>,
    <<"jin", "tian", "-", "ming", "tian">>,
    <<"jin", "tian", "~", "hou", "tian">>,
    <<"cong", "zuo", "tian", "dao", "jin", "tian">>,
    <<"cong", "zuo", "tian", "9", "dian", "dao", "jin", "tian">>,
    <<"zuo", "tian", "9", "dian", "dao", "jin", "tian">>,
    <<"zuo", "tian", "dao", "sui", "bian", "zhi", "jin", "tian">>,
    <<"cong", "zuo", "tian", "zhi", "jin", "tian">>,
    <<"zuo", "tian", " ", "dao", " ", "jin", "tian">>,
    <<"shang", "zhou", "yi", "dao", "zhou", "wu">>,
    <<"shang", "zhou", "san", "dao", "zhou", "wu">>,
    <<"shang", "xing", "qi2", "san", "dao", "zhou", "wu">>,
    <<"shang", "zhou", "dao", "jin", "tian">>,
    <<"jin", "tian", "dao", "xia", "ge", "yue">>,
    <<"shang", "wu2", "9", "dian", "dao", "1", "0", "dian">>,
    <<"xia", "wu2", "3", "dian", "dao", "5", "dian">>,
    <<"wan", "shang", "8", "dian", "dao", "9", "dian">>,
    <<"jin", "tian", "dao", "xia", "wu2", "3", "dian">>,
    <<"3", "tian", "qian", "dao", "san", "zhou", "hou">>,
    <<"guo", "qing2", "jie", "dao", "3", "ge", "yue", "hou">>,
    <<"zuo", "tian", "dao", "sui", "bian">>,
    <<"sui", "bian", "zhi", "jin", "tian">>,
    <<"jin", "tian", "dao", "2", "5", "dian">>,
    <<"chun", "jie", "dao", "yuan", "xiao", "jie">> }

OtherExpressions == {
    <<>>,
    <<" ">>,
    <<" ", " ">>,
    <<"sui", "bian", "shen2", "me">>,
    <<" ", "jin", "tian", " ">>,
    <<"ban", "tian", "qian">> }

Expressions ==
    DayExpressions \cup WeekdayExpressions \cup WeekExpressions \cup MonthExpressions
        \cup TimeExpressions \cup DateExpressions \cup HolidayExpressions
        \cup RangeExpressions \cup OtherExpressions

\* what the handler is asked, and what a parser is asked after its first call
HandlerExpressions == {
    <<"jin", "tian">>,
    <<"xia", "zhou", "yi">>,
    <<"liang", "zhou", "qian">>,
    <<"xia", "wu2", "3", "dian", "3", "0", "fen">>,
    <<"2", "5", "dian">>,
    <<"zuo", "tian", "dao", "jin", "tian">>,
    <<"chun", "jie">>,
    <<"sui", "bian", "shen2", "me">> }

RepeatExpressions == {
    <<"jin", "tian">>,
    <<"zuo", "tian", "dao", "jin", "tian">>,
    <<"sui", "bian", "shen2", "me">> }

(***************************************************************************)
(* The specification: one caller, calls one after the other.               *)
(***************************************************************************)

Init ==
    /\ clock \in {(d - 1) * 24 + 15 : d \in StartDates}
    /\ zhdate = "unknown"
    /\ _now = [p \in Parsers |-> <<>>]
    /\ tz = [p \in Parsers |-> Get(ZONES, "Asia/Shanghai", 0)]
    /\ call = [c \in Callers |-> Idle]
    /\ out = [c \in Callers |-> NoResult]
    /\ ticks = 0
    /\ ncalls = 0

\* a request reaches the handler
Handler(c) ==
    \E e \in (IF (clock \div 24) + 1 \in SideDates THEN {}
               ELSE IF ncalls = 0 THEN HandlerExpressions ELSE RepeatExpressions) :
        \E timezone \in Timezones : HandlerCall(c, e, timezone)

Next ==
    \/ Tick
    \* the caller calls the shared parser: any expression first, a side date's own on it
    \/ \E e \in (IF (clock \div 24) + 1 \in SideDates
                  THEN (IF ncalls = 0 THEN DateExpressions \cup HolidayExpressions ELSE {})
                  ELSE IF ncalls = 0 THEN Expressions ELSE RepeatExpressions) :
           UserCall(1, "direct", e)
    \/ Handler(1)
    \/ ParseEnter(1)
    \/ RangeStep(1)
    \/ Consult(1)
    \* between calls the caller reads parser.now, or calls parser.reset_now() (after
    \* a repeat expression or a read of parser.now)
    \/ UserCall(1, "now", <<>>)
    \/ call[1].expression \in RepeatExpressions \cup {<<>>} /\ UserCall(1, "reset_now", <<>>)
    \/ NowStep(1)

Spec == Init /\ [][Next]_vars

(***************************************************************************)
(* The numeral converter on its own: _cn_to_num(token).                     *)
(***************************************************************************)

\* the tokens, of 2, the superscript two, 二, 两, 十, 半 and 天, and the decimal
\* string of ones that is a digit longer than int() converts
NumeralTokens ==
    UNION {[1..n -> {"2", "sup2", "er", "liang", "shi", "ban", "tian"}] : n \in 0..MaxTokenLen}
        \cup {[i \in 1..(default_max_str_digits + 1) |-> "1"]}

InitNumeral ==
    /\ clock \in {(ymd2ord(2024, 1, 15) - 1) * 24 + 15}
    /\ zhdate = "unknown"
    /\ _now = [p \in Parsers |-> <<>>]
    /\ tz = [p \in Parsers |-> Get(ZONES, "Asia/Shanghai", 0)]
    /\ \E cn \in NumeralTokens :
           call = [c \in Callers |-> IF c = 1 THEN [Idle EXCEPT !.pc = "numeral", !.via = "numeral",
                                                                !.expression = cn]
                                     ELSE Idle]
    /\ out = [c \in Callers |-> NoResult]
    /\ ticks = 0
    /\ ncalls = 0

\* parser._cn_to_num(cn) returns a number, kept in halves with its type, or raises
ConvertNumeral(c) ==
    /\ call[c].pc = "numeral"
    /\ call' = [call EXCEPT ![c].pc = "done"]
    /\ out' = [out EXCEPT ![c] =
                  IF NumeralRaises(call[c].expression) THEN _cn_to_num(call[c].expression)
                  ELSE [kind |-> "returned",
                        halves |-> IF isdigit(call[c].expression)
                                   THEN 2 * int(call[c].expression)
                                   ELSE CnToHalves(call[c].expression),
                        float |-> CnIsFloat(call[c].expression)]]
    /\ UNCHANGED <<clock, zhdate, _now, tz, ticks, ncalls>>

NextNumeral == ConvertNumeral(1)

SpecNumeral == InitNumeral /\ [][NextNumeral]_vars

(***************************************************************************)
(* Two callers at once: threads on the shared parser, whose steps are those *)
(* of the property now, and requests through the handler, each with a      *)
(* parser of its own.                                                      *)
(***************************************************************************)

\* both callers idle, an hour before the new year in Shanghai
InitConcurrent ==
    /\ Init
    /\ (clock \div 24) + 1 = ymd2ord(2023, 12, 31)

NextConcurrent ==
    \/ Tick
    \/ \E c \in Callers :
           \E e \in RepeatExpressions
                      \cup {<<"ben", "yue">>, <<"ben", "yue", "dao", "jin", "tian">>,
                            <<"chun", "jie">>, <<"3", "1", "ri">>} :
               UserCall(c, "thread", e)
    \/ \E c \in Callers : UserCall(c, "now", <<>>)
    \/ \E c \in Callers : UserCall(c, "reset_now", <<>>)
    \/ \E c \in Callers : \E e \in RepeatExpressions : HandlerCall(c, e, "UTC")
    \/ \E c \in Callers : ParseEnter(c)
    \/ \E c \in Callers : RangeStep(c)
    \/ \E c \in Callers : Consult(c)
    \/ \E c \in Callers : NowStep(c)

SpecConcurrent == InitConcurrent /\ [][NextConcurrent]_vars

(***************************************************************************)
(* Properties                                                              *)
(***************************************************************************)

\* caller c's call of parse has returned or raised
Finished(c) == call[c].pc = "done" /\ call[c].seen # {} /\ call[c].via # "now"

\* what parse returned or raised to caller c (behind the handler's wrapping)
Result(c) ==
    IF call[c].via = "handler"
    THEN IF out[c].success THEN out[c].parsed[1] ELSE Raise(out[c].error[1])
    ELSE out[c]

\* an instant caller c's call read as "now"
TheNow(c) == CHOOSE n \in call[c].seen : TRUE

\* the outcome of the import of zhdate, as far as it has been tried
ZhNow == IF zhdate = "unknown" THEN "absent" ELSE zhdate

\* the order in which the cascade is specified to consult the sub-parsers
CascadeOrder == <<"range", "holiday", "relative_day", "weekday", "relative_week",
                  "relative_month", "time_of_day", "specific_date">>

\* the weekday characters with their index in a Monday-start week
WeekdayIndex == {
    << <<"yi">>, 0 >>, << <<"er">>, 1 >>, << <<"san">>, 2 >>, << <<"si">>, 3 >>,
    << <<"wu">>, 4 >>, << <<"liu">>, 5 >>, << <<"ri">>, 6 >>, << <<"tian">>, 6 >> }

\* the weekday prefixes with the weeks they shift by
PrefixWeeks == {
    << <<>>, 0 >>, << <<"zhe">>, 0 >>, << <<"shang">>, -1 >>, << <<"shang", "shang">>, -2 >>,
    << <<"xia">>, 1 >>, << <<"xia", "xia">>, 2 >> }

\* the Monday of the week of a date
MondayOf(d) == d - ((d + 6) % 7)

\* the point result for the date d at confidence c: a str, date-only, no range
IsDatePoint(r, d, c) ==
    /\ r.kind = "ok"
    /\ r.value = Str(FormatDate(d))
    /\ ~r.is_range
    /\ r.is_date_only
    /\ r.confidence = c

\* the range result for the dates d1..d2 at confidence c
IsDateRange(r, d1, d2, c) ==
    /\ r.kind = "ok"
    /\ r.value = List(FormatDate(d1), FormatDate(d2))
    /\ r.is_range
    /\ r.is_date_only
    /\ r.confidence = c

\* no range pattern splits expr into two halves that both parse
RangeDeclines(expr, now, zh) ==
    \A k \in 1..5 :
        \/ RangeSplit(expr, k) = <<>>
        \/ _parse_single(RangeSplit(expr, k)[1], now, zh).kind = "none"
        \/ _parse_single(RangeSplit(expr, k)[2], now, zh).kind = "none"

\* C1: parse consults the sub-parsers in the order range, holiday, relative-day,
\* weekday, relative-week, relative-month, time-of-day, specific-date, returns the
\* result of the first that matches and consults none after it; so prefix+周+X is
\* the single weekday date, not the week's range.
C1_CascadeOrder ==
    \A c \in Callers :
        LET k    == Len(call[c].consulted)
            expr == call[c].expr
        IN  /\ k <= Len(CascadeOrder)
            /\ call[c].consulted = SubSeq(CascadeOrder, 1, k)
            /\ Finished(c) =>
                 LET now == TheNow(c)
                     r   == Result(c)
                 IN  /\ k >= 1
                     /\ k >= 2 => RangeDeclines(expr, now, ZhNow)
                     /\ \A i \in 2..(k - 1) :
                            Apply(CascadeOrder[i], expr, now, ZhNow).kind = "none"
                     /\ (k >= 2 /\ call[c].idx <= Len(CascadeOrder)) =>
                            /\ r = Apply(CascadeOrder[k], expr, now, ZhNow)
                            /\ r.kind # "none"
                     /\ \A pw \in PrefixWeeks, wi \in WeekdayIndex :
                            expr = pw[1] \o <<"zhou">> \o wi[1] =>
                                /\ call[c].consulted = SubSeq(CascadeOrder, 1, 4)
                                /\ IsDatePoint(r, MondayOf(now.date) + wi[2] + 7 * pw[2], 95)
                                /\ ~r.value.list

\* C1 witness: 上周三 has been parsed to a point, the weekday matcher consulted last
C1_Witness ==
    /\ Finished(1)
    /\ call[1].expr = <<"shang", "zhou", "san">>
    /\ call[1].consulted[Len(call[1].consulted)] = "weekday"
    /\ out[1].kind = "ok" /\ ~out[1].is_range

\* C2 (as claimed): parse never raises, whatever the text
C2_ParseNeverRaises ==
    \A c \in Callers :
        (call[c].pc = "done" /\ call[c].via = "direct") => out[c].kind = "ok"

\* C3: when every sub-parser declines, parse returns today's date, date-only, no
\* range, confidence 0.3; and confidence 0.3 is returned in that case only.
C3_Fallback ==
    \A c \in Callers :
        Finished(c) =>
            LET r        == Result(c)
                now      == TheNow(c)
                expr     == call[c].expr
                declined == /\ RangeDeclines(expr, now, ZhNow)
                            /\ \A i \in 2..Len(CascadeOrder) :
                                   Apply(CascadeOrder[i], expr, now, ZhNow).kind = "none"
            IN  /\ declined => /\ IsDatePoint(r, now.date, 30)
                               /\ ~r.value.list
                /\ (r.kind = "ok" /\ r.confidence = 30) => declined
                /\ (\A i \in 1..Len(call[c].expression) : call[c].expression[i] = " ") => declined
                /\ call[c].expression = <<"sui", "bian", "shen2", "me">> => declined

\* C3 witness: whitespace-only input has fallen through to the fallback
C3_Witness ==
    /\ Finished(1)
    /\ call[1].expression = <<" ", " ">>
    /\ out[1].kind = "ok" /\ out[1].confidence = 30
    /\ Len(call[1].consulted) = 8

\* the ParsedTime the range composer's sub-parser order gives for a half h
HalfParsed(h, now, zh) ==
    LET hits == {i \in 1..7 :
                    Apply(<<"holiday", "relative_day", "relative_week", "relative_month",
                            "time_of_day", "specific_date", "weekday">>[i],
                          h, now, zh).kind # "none"}
    IN  IF hits = {} THEN NoMatch
        ELSE Apply(<<"holiday", "relative_day", "relative_week", "relative_month",
                     "time_of_day", "specific_date", "weekday">>[
                       CHOOSE i \in hits : \A j \in hits : i <= j],
                   h, now, zh)

\* caller c's call returned a range built by the range composer
RangeReturned(c) ==
    /\ Finished(c)
    /\ call[c].consulted = <<"range">>
    /\ Result(c).kind = "ok"

\* C4: the range composer merges the two parsed halves in input order: value =
\* [start value, end value], is_range, is_date_only = AND of the halves' flags,
\* confidence = MIN of the halves' confidences; of a half that is itself a range
\* only the first element is used.
C4_RangeComposer ==
    \A c \in Callers :
        RangeReturned(c) =>
            LET r  == Result(c)
                sp == RangeSplit(call[c].expr, call[c].pat)
                a  == HalfParsed(sp[1], TheNow(c), ZhNow)
                b  == HalfParsed(sp[2], TheNow(c), ZhNow)
            IN  /\ a.kind = "ok" /\ b.kind = "ok"
                /\ r.value.list
                /\ r.value.items = <<a.value.items[1], b.value.items[1]>>
                /\ r.is_range
                /\ r.is_date_only = (a.is_date_only /\ b.is_date_only)
                /\ r.confidence = (IF a.confidence <= b.confidence
                                   THEN a.confidence ELSE b.confidence)

\* C4 witness: 上周到今天 has been composed: the start half is itself a range, and
\* the halves' confidences differ
C4_Witness ==
    /\ RangeReturned(1)
    /\ call[1].expr = <<"shang", "zhou", "dao", "jin", "tian">>
    /\ out[1].confidence = 95
    /\ out[1].value.items[2] = FormatDate(TheNow(1).date)

\* C5: within one call of parse "now" is resolved once and every later read in
\* that call gives the same instant, whatever the clock does meanwhile, so the
\* end of 昨天到今天 is the date 今天 gives for that instant; and each call of
\* parse first drops the instant the parser held and resolves the clock anew.
C5_NowOncePerCall ==
    /\ [](\A c \in Callers :
            /\ Cardinality(call[c].seen) <= 1
            /\ (call[c].seen # {} /\ call[c].pc # "done") =>
                   _now[call[c].parser] = <<TheNow(c)>>
            /\ (RangeReturned(c) /\ call[c].expr = <<"zuo", "tian", "dao", "jin", "tian">>) =>
                   Result(c).value.items[2]
                       = _parse_relative_day(<<"jin", "tian">>, TheNow(c)).value.items[1])
    /\ [][\A c \in Callers :
            /\ (call[c].pc = "parse" /\ call'[c].pc # "parse") =>
                   _now'[call[c].parser] = <<>>
            /\ (call[c].seen = {} /\ call'[c].seen # {} /\ call'[c].via # "now") =>
                   call'[c].seen = {SystemNow(call[c].parser)}]_vars

\* C5 witness: the parser's second call has composed 昨天到今天 from the instant it
\* resolved after the clock had advanced, and the clock has advanced again since
C5_Witness ==
    /\ ncalls = 2
    /\ RangeReturned(1)
    /\ call[1].via = "direct"
    /\ call[1].expr = <<"zuo", "tian", "dao", "jin", "tian">>
    /\ ticks = 2
    /\ TheNow(1).hour = 0
    /\ SystemNow(Shared).hour = 1

\* C6: the handler never raises and returns exactly one of parsed and error:
\* success with parsed set and no error, or failure with an error message and
\* no parsed; an invalid timezone gives failure.
C6_HandlerOutput ==
    \A c \in Callers :
        (call[c].pc = "done" /\ call[c].via = "handler") =>
            /\ out[c].kind = "output"
            /\ out[c].success => (Len(out[c].parsed) = 1 /\ out[c].error = <<>>)
            /\ ~out[c].success => (out[c].parsed = <<>> /\ Len(out[c].error) = 1)
            /\ call[c].timezone \notin {"Asia/Shanghai", "UTC"} => ~out[c].success

\* C6 witness: the handler has answered a request with an invalid timezone
C6_Witness ==
    /\ call[1].pc = "done" /\ call[1].via = "handler"
    /\ call[1].timezone = "Invalid/Timezone"
    /\ out[1].kind = "output" /\ ~out[1].success /\ out[1].error # <<>>

\* the named relative-day tokens with their offsets in days
NamedDays == {
    << <<"jin", "tian">>, 0 >>, << <<"jin", "ri">>, 0 >>,
    << <<"zuo", "tian">>, -1 >>, << <<"zuo", "ri">>, -1 >>,
    << <<"qian", "tian">>, -2 >>, << <<"qian", "ri">>, -2 >>,
    << <<"da", "qian", "tian">>, -3 >>,
    << <<"ming", "tian">>, 1 >>, << <<"ming", "ri">>, 1 >>,
    << <<"hou", "tian">>, 2 >>, << <<"hou", "ri">>, 2 >>,
    << <<"da", "hou", "tian">>, 3 >> }

\* numerals with the number each denotes
NumeralValues ==
    {<<DigitsOf(n), n>> : n \in 0..MaxNumeral}
        \cup { << <<"1", "2">>, 12 >>, << <<"1", "3">>, 13 >>, << <<"2", "5">>, 25 >>,
               << <<"2", "8", "8">>, 288 >>, << <<"9", "1", "2">>, 912 >>,
               << <<"san">>, 3 >>, << <<"shi">>, 10 >>, << <<"shi", "er">>, 12 >>,
               << <<"shi", "wu">>, 15 >>, << <<"er", "shi">>, 20 >>,
               << <<"er", "shi", "san">>, 23 >> }

C8_Weekday ==
    \A c \in Callers :
        Finished(c) =>
            \A pw \in PrefixWeeks, w \in {<<"zhou">>, <<"xing", "qi2">>}, x \in WeekdayIndex :
                call[c].expr = pw[1] \o w \o x[1] =>
                    /\ IsDatePoint(Result(c), MondayOf(TheNow(c).date) + x[2] + 7 * pw[2], 95)
                    /\ ~Result(c).value.list

\* C8 witness: 上上周日 has been parsed on Wednesday 2024-02-28 and gave Sunday
\* 2024-02-18
C8_Witness ==
    /\ Finished(1)
    /\ call[1].expr = <<"shang", "shang", "zhou", "ri">>
    /\ TheNow(1).date = ymd2ord(2024, 2, 28)
    /\ out[1].kind = "ok" /\ out[1].confidence = 95 /\ ~out[1].is_range
    /\ out[1].value = Str("2024-02-18")

\* the named relative-week tokens with their offsets in weeks
NamedWeeks == {
    << <<"ben", "zhou">>, 0 >>, << <<"zhe", "zhou">>, 0 >>,
    << <<"shang", "zhou">>, -1 >>, << <<"shang", "yi", "zhou">>, -1 >>,
    << <<"shang", "shang", "zhou">>, -2 >>,
    << <<"xia", "zhou">>, 1 >>, << <<"xia", "yi", "zhou">>, 1 >>,
    << <<"xia", "xia", "zhou">>, 2 >> }

\* C9: a relative-week expression gives the range [start, start + 6 days] with
\* start the Monday (now's date - now's weekday index) + 7 * offset days; a named
\* token at confidence 0.95, a numeral N with 周/星期 and 前/后 at confidence 0.9.
C9_RelativeWeek ==
    \A c \in Callers :
        Finished(c) =>
            /\ \A nw \in NamedWeeks :
                   call[c].expr = nw[1] =>
                       LET start == MondayOf(TheNow(c).date) + 7 * nw[2]
                       IN  /\ IsDateRange(Result(c), start, start + 6, 95)
                           /\ weekday(start) = 0
            /\ \A nv \in NumeralValues \cup { << <<"liang">>, 2 >> },
                  w \in {<<"zhou">>, <<"xing", "qi2">>, <<"ge", "xing", "qi2">>},
                  dir \in {<<"qian", -1>>, <<"hou", 1>>} :
                   call[c].expr = nv[1] \o w \o <<dir[1]>> =>
                       LET start == MondayOf(TheNow(c).date) + 7 * nv[2] * dir[2]
                       IN  /\ IsDateRange(Result(c), start, start + 6, 90)
                           /\ weekday(start) = 0

\* C9 witness: 两周前 has been parsed on Sunday 2024-03-03 and gave the week from
\* Monday 2024-02-12
C9_Witness ==
    /\ Finished(1)
    /\ call[1].expr = <<"liang", "zhou", "qian">>
    /\ TheNow(1).date = ymd2ord(2024, 3, 3)
    /\ out[1].kind = "ok" /\ out[1].is_range /\ out[1].confidence = 90
    /\ out[1].value = List("2024-02-12", "2024-02-18")

\* the named relative-month tokens with their offsets in months
NamedMonths == {
    << <<"ben", "yue">>, 0 >>, << <<"zhe", "ge", "yue">>, 0 >>,
    << <<"shang", "ge", "yue">>, -1 >>, << <<"shang", "yue">>, -1 >>,
    << <<"xia", "ge", "yue">>, 1 >>, << <<"xia", "yue">>, 1 >> }

\* the length of month m of year y in the Gregorian calendar
TrueMonthLength(y, m) ==
    IF m \in {4, 6, 9, 11} THEN 30
    ELSE IF m # 2 THEN 31
    ELSE IF y % 400 = 0 \/ (y % 4 = 0 /\ y % 100 # 0) THEN 29
    ELSE 28

\* the range result for the month k months from the month of the date d, at
\* confidence c: the m in 1..12 and y with 12 * y + m = 12 * year + month + k
IsMonthRange(r, d, k, c) ==
    LET t == 12 * ord2ymd(d)[1] + (ord2ymd(d)[2] - 1) + k
        y == t \div 12
        m == (t % 12) + 1
    IN  /\ 12 * y + m = 12 * ord2ymd(d)[1] + ord2ymd(d)[2] + k
        /\ r.kind = "ok"
        /\ r.value = List(FormatYearMonthDay(y, m, 1),
                          FormatYearMonthDay(y, m, TrueMonthLength(y, m)))
        /\ r.is_range
        /\ r.is_date_only
        /\ r.confidence = c

\* C10: a relative-month expression of offset k gives [first day, last day] of
\* the month m of year y with 1 <= m <= 12 and 12*y + m = 12*now.year + now.month
\* + k, the last day being the month's true length; a named token at confidence
\* 0.95, a numeral N with 个月 and 前/后 at confidence 0.85, offsets over 12 included.
C10_RelativeMonth ==
    \A c \in Callers :
        Finished(c) =>
            /\ \A nm \in NamedMonths :
                   call[c].expr = nm[1] => IsMonthRange(Result(c), TheNow(c).date, nm[2], 95)
            /\ \A nv \in NumeralValues, dir \in {<<"qian", -1>>, <<"hou", 1>>} :
                   call[c].expr = nv[1] \o <<"ge", "yue", dir[1]>> =>
                       IsMonthRange(Result(c), TheNow(c).date, nv[2] * dir[2], 85)

\* C10 witness: 912个月后 has been parsed in February 2024 and gave the 28 days of
\* February 2100
C10_Witness ==
    /\ Finished(1)
    /\ call[1].expr = <<"9", "1", "2", "ge", "yue", "hou">>
    /\ out[1].kind = "ok" /\ out[1].confidence = 85
    /\ out[1].value = List("2100-02-01", "2100-02-28")

\* the period words with the hours each adds to an hour below 12
PeriodWords == {
    << <<>>, 0 >>, << <<"ling2", "chen">>, 0 >>, << <<"zao", "shang">>, 0 >>,
    << <<"shang", "wu2">>, 0 >>, << <<"zhong", "wu2">>, 0 >>, << <<"xia", "wu2">>, 12 >>,
    << <<"wan", "shang">>, 12 >>, << <<"shen", "ye">>, 0 >> }

\* written hours and written minutes with the number each denotes
HourValues == {
    << <<"3">>, 3 >>, << <<"8">>, 8 >>, << <<"9">>, 9 >>, << <<"1", "2">>, 12 >>,
    << <<"shi", "er">>, 12 >>, << <<"san">>, 3 >>, << <<"2", "5">>, 25 >> }

MinuteValues == {
    << <<>>, 0 >>, << <<"5">>, 5 >>, << <<"3", "0">>, 30 >>, << <<"3", "0", "fen">>, 30 >>,
    << <<"san", "shi", "fen">>, 30 >>, << <<"9", "9", "fen">>, 99 >> }

\* the hour the period word pw makes of the written hour h
PeriodHour(pw, h) ==
    IF pw[2] = 12 /\ h < 12 THEN h + 12
    ELSE IF pw[1] = <<"ling2", "chen">> /\ h = 12 THEN 0
    ELSE h

\* the point result for hour:minute on the date d: a datetime, confidence 0.9
IsTimePoint(r, d, hour, minute) ==
    /\ r.kind = "ok"
    /\ r.value = Str(FormatDate(d) \o " " \o Pad2(hour) \o ":" \o Pad2(minute) \o ":00")
    /\ ~r.is_range
    /\ ~r.is_date_only
    /\ r.confidence = 90

\* C11 (as claimed): (period)?(hour)点((minute)分?)? gives a point datetime on
\* now's date, not date-only, confidence 0.9; its hour is hour + 12 when the period
\* is 下午 or 晚上 and hour < 12, 0 when the period is 凌晨 and hour = 12, the
\* written hour otherwise; its minute is the written minute, 0 when none is
\* written.  The written hours and minutes include 25 and 99.
C11_TimeOfDay ==
    \A c \in Callers :
        Finished(c) =>
            \A pw \in PeriodWords, hv \in HourValues, mv \in MinuteValues :
                call[c].expr = pw[1] \o hv[1] \o <<"dian">> \o mv[1] =>
                    /\ IsTimePoint(Result(c), TheNow(c).date, PeriodHour(pw, hv[2]), mv[2])
                    /\ call[c].consulted[Len(call[c].consulted)] = "time_of_day"

\* written months and days with the number each denotes
MonthDayValues == {
    << <<"1">>, 1 >>, << <<"2">>, 2 >>, << <<"1", "3">>, 13 >>, << <<"2", "0">>, 20 >>,
    << <<"3", "0">>, 30 >>, << <<"3", "1">>, 31 >>, << <<"3", "2">>, 32 >> }

\* year-month-day is a date of the Gregorian calendar
IsCalendarDate(y, m, d) ==
    /\ y >= 1 /\ y <= 9999
    /\ m >= 1 /\ m <= 12
    /\ d >= 1 /\ d <= TrueMonthLength(y, m)

\* what parse makes of a written date y-m-d that no earlier matcher takes: the
\* date at confidence 1.0 when it is one, else every matcher declines
IsWrittenDate(c, y, m, d) ==
    IF IsCalendarDate(y, m, d)
    THEN /\ IsDatePoint(Result(c), ymd2ord(y, m, d), 100)
         /\ ~Result(c).value.list
         /\ call[c].consulted[Len(call[c].consulted)] = "specific_date"
    ELSE /\ IsDatePoint(Result(c), TheNow(c).date, 30)
         /\ Len(call[c].consulted) = Len(CascadeOrder)

\* C12: YYYY年M月D日 is that date; M月D日 is the date in now's year; D日/号 is
\* the date in now's year and month; each a date-only point of confidence 1.0 when
\* it is a calendar date.  Numbers that form no calendar date (month 13, day 32,
\* February 30, day 31 in a 30-day month) are skipped without raising and end in
\* no-match.
C12_SpecificDate ==
    \A c \in Callers :
        Finished(c) =>
            /\ \A m \in MonthDayValues, d \in MonthDayValues, e \in {<<>>, <<"ri">>, <<"hao">>} :
                   /\ call[c].expr = <<"2", "0", "2", "4", "nian">> \o m[1] \o <<"yue">> \o d[1] \o e
                          => IsWrittenDate(c, 2024, m[2], d[2])
                   /\ call[c].expr = m[1] \o <<"yue">> \o d[1] \o e
                          => IsWrittenDate(c, ord2ymd(TheNow(c).date)[1], m[2], d[2])
            /\ \A d \in MonthDayValues, e \in {<<"ri">>, <<"hao">>} :
                   call[c].expr = d[1] \o e
                       => IsWrittenDate(c, ord2ymd(TheNow(c).date)[1],
                                        ord2ymd(TheNow(c).date)[2], d[2])

\* C12 witness: 31日 has been parsed on 2024-04-30, a day of a 30-day month, and
\* was skipped by every matcher
C12_Witness ==
    /\ Finished(1)
    /\ call[1].expr = <<"3", "1", "ri">>
    /\ TheNow(1).date = ymd2ord(2024, 4, 30)
    /\ out[1].kind = "ok" /\ out[1].confidence = 30
    /\ call[1].consulted[Len(call[1].consulted)] = "specific_date"

\* solar holidays: name, month, day, days the holiday lasts
SolarFacts == {
    << <<"yuan", "dan">>, 1, 1, 1 >>, << <<"lao", "dong", "jie">>, 5, 1, 5 >>,
    << <<"guo", "qing2", "jie">>, 10, 1, 7 >> }

\* lunar holidays: name, days the holiday lasts, its solar date in each year
LunarFacts == {
    << <<"chun", "jie">>, 7, {<<2023, 1, 22>>, <<2024, 2, 10>>} >>,
    << <<"zhong", "qiu", "jie">>, 1, {<<2023, 9, 29>>, <<2024, 9, 17>>} >> }

\* with or without the marker 期间
Marked == { << <<>>, FALSE >>, << <<"qi2", "jian2">>, TRUE >> }

\* the holiday result for a holiday of dur days from the date start on
IsHoliday(r, start, dur, marked) ==
    IF dur > 1 \/ marked
    THEN IsDateRange(r, start, start + dur - 1, 95) /\ r.value.list
    ELSE IsDatePoint(r, start, 95) /\ ~r.value.list

\* C13: a holiday match starts at the holiday's date in now's year (the solar
\* table first, then the lunar table through the adapter, then Qingming = April 4
\* in leap years, April 5 otherwise), confidence 0.95; it is the range [start,
\* start + duration - 1 days] when the duration exceeds one day or the expression
\* contains 期间, the point start otherwise.
C13_Holiday ==
    \A c \in Callers :
        Finished(c) =>
            LET year == ord2ymd(TheNow(c).date)[1]
                r    == Result(c)
            IN  \A mk \in Marked :
                    /\ \A h \in SolarFacts :
                           call[c].expr = h[1] \o mk[1] =>
                               IsHoliday(r, ymd2ord(year, h[2], h[3]), h[4], mk[2])
                    /\ \A h \in LunarFacts : \A d \in h[3] :
                           (call[c].expr = h[1] \o mk[1] /\ d[1] = year /\ zhdate = "ok") =>
                               IsHoliday(r, ymd2ord(d[1], d[2], d[3]), h[2], mk[2])
                    /\ \A qm \in {<<"qing3", "ming">>, <<"qing3", "ming", "jie">>} :
                           call[c].expr = qm \o mk[1] =>
                               IsHoliday(r, ymd2ord(year, 4, IF TrueMonthLength(year, 2) = 29
                                                            THEN 4 ELSE 5),
                                         IF mk[2] THEN 3 ELSE 1, mk[2])
                    /\ call[c].expr = <<"chun", "jie", "yuan", "dan">> =>
                           IsHoliday(r, ymd2ord(year, 1, 1), 1, FALSE)

\* C13 witness: 元旦期间, a one-day holiday with the marker, has been parsed on
\* 2024-01-15 and gave the range from 2024-01-01 to 2024-01-01
C13_Witness ==
    /\ Finished(1)
    /\ call[1].expr = <<"yuan", "dan", "qi2", "jian2">>
    /\ TheNow(1).date = ymd2ord(2024, 1, 15)
    /\ out[1].kind = "ok" /\ out[1].is_range /\ out[1].confidence = 95
    /\ out[1].value = List("2024-01-01", "2024-01-01")

\* the lunar adapter cannot serve caller c's call: the library is absent, or has
\* no table for now's year
AdapterUnavailable(c) ==
    \/ zhdate = "absent"
    \/ zhdate = "ok" /\ ord2ymd(TheNow(c).date)[1] \notin {2023, 2024, 2025}

\* C14: when the lunar adapter is unavailable or fails, lunar_to_solar returns
\* "unavailable" without raising, the holiday matcher treats the lunar holiday as
\* not matched and parse continues the cascade: it returns the result of a later
\* matching sub-parser, or the 0.3 fallback; the failure never reaches the caller.
C14_LunarUnavailable ==
    /\ \A y \in {2023, 2024, 2101}, md \in {<<1, 1>>, <<8, 15>>, <<12, 30>>} :
           /\ _lunar_to_solar("absent", y, md[1], md[2]) = <<>>
           /\ _lunar_to_solar("ok", 2101, md[1], md[2]) = <<>>
    /\ \A c \in Callers :
           (Finished(c) /\ AdapterUnavailable(c)) =>
               /\ call[c].expr \in {<<"chun", "jie">>, <<"zhong", "qiu", "jie">>, <<"chu2", "xi">>}
                      => /\ IsDatePoint(Result(c), TheNow(c).date, 30)
                         /\ Len(call[c].consulted) = Len(CascadeOrder)
               /\ call[c].expr = <<"chun", "jie", "shang", "wu2", "9", "dian">>
                      => /\ IsTimePoint(Result(c), TheNow(c).date, 9, 0)
                         /\ call[c].consulted[Len(call[c].consulted)] = "time_of_day"
               /\ call[c].expr = <<"chun", "jie", "dao", "yuan", "xiao", "jie">>
                      => /\ IsDatePoint(Result(c), TheNow(c).date, 30)
                         /\ Len(call[c].consulted) = Len(CascadeOrder)
               /\ call[c].via = "handler" => out[c].success

\* C14 witness: the library is absent and 春节上午9点 has been parsed: the holiday
\* matcher declined and the time-of-day matcher answered
C14_Witness ==
    /\ Finished(1)
    /\ zhdate = "absent"
    /\ call[1].expr = <<"chun", "jie", "shang", "wu2", "9", "dian">>
    /\ Len(call[1].consulted) = 7
    /\ out[1].kind = "ok" /\ out[1].confidence = 90

\* C15 (as claimed): the result's original_expression is the exact input text,
\* leading and trailing whitespace included, for range expressions too
C15_OriginalExpression ==
    \A c \in Callers :
        (Finished(c) /\ Result(c).kind = "ok") =>
            Result(c).original_expression = call[c].expression

\* the value v is [start, end] for a date start among starts and a date end from
\* start to start + span
OrderedDates(v, starts, span) ==
    \E d1 \in starts :
        /\ v.items[1] = FormatDate(d1)
        /\ \E d2 \in d1..(d1 + span) : v.items[2] = FormatDate(d2)

\* the value v is [first day, a day] of one month at most reach months from the
\* month of the date d
OrderedInMonth(v, d, reach) ==
    \E k \in (0 - reach)..reach :
        LET t == 12 * ord2ymd(d)[1] + (ord2ymd(d)[2] - 1) + k
        IN  /\ v.items[1] = FormatYearMonthDay(t \div 12, (t % 12) + 1, 1)
            /\ \E e \in 1..31 : v.items[2] = FormatYearMonthDay(t \div 12, (t % 12) + 1, e)

\* C16: every ParsedTime parse returns is well-shaped: is_range holds exactly when
\* value is a list, which then has exactly two non-empty strings, and otherwise
\* value is one non-empty string; and every range of the holiday, relative-week
\* and relative-month matchers has start <= end.
C16_WellShaped ==
    \A c \in Callers :
        (Finished(c) /\ Result(c).kind = "ok") =>
            LET r    == Result(c)
                last == call[c].consulted[Len(call[c].consulted)]
                d    == TheNow(c).date
            IN  /\ r.is_range = r.value.list
                /\ Len(r.value.items) = (IF r.is_range THEN 2 ELSE 1)
                /\ \A i \in 1..Len(r.value.items) : r.value.items[i] # ""
                /\ (r.is_range /\ last = "holiday") =>
                       OrderedDates(r.value, (d - 400)..(d + 400), 7)
                /\ (r.is_range /\ last = "relative_week") =>
                       OrderedDates(r.value, {MondayOf(d) + 7 * k : k \in -25..25}, 6)
                /\ (r.is_range /\ last = "relative_month") =>
                       OrderedInMonth(r.value, d, 1000)

\* C16 witness: 上个月 has been parsed on 2024-01-15 and gave the range from
\* 2023-12-01 to 2023-12-31
C16_Witness ==
    /\ Finished(1)
    /\ call[1].expr = <<"shang", "ge", "yue">>
    /\ TheNow(1).date = ymd2ord(2024, 1, 15)
    /\ out[1].kind = "ok" /\ out[1].is_range /\ out[1].value.list
    /\ out[1].value.items = <<"2023-12-01", "2023-12-31">>

\* the single numeral characters with the number each denotes
NumeralDigits == { <<"er", 2>>, <<"liang", 2>>, <<"shi", 10>> }

\* the number the stated resolution order gives a token, in halves
StatedHalves(cn) ==
    IF cn # <<>> /\ \A i \in 1..Len(cn) : cn[i] = "2" THEN 2 * ((10 ^ Len(cn) - 1) \div 9) * 2
    ELSE IF cn = <<"ban">> THEN 1
    ELSE IF \E d \in NumeralDigits : cn = <<d[1]>>
         THEN 2 * (CHOOSE d \in NumeralDigits : cn = <<d[1]>>)[2]
    ELSE IF \E d \in NumeralDigits : cn = <<"shi", d[1]>>
         THEN 2 * (10 + (CHOOSE d \in NumeralDigits : cn = <<"shi", d[1]>>)[2])
    ELSE IF \E d \in NumeralDigits : cn = <<d[1], "shi">>
         THEN 2 * (10 * (CHOOSE d \in NumeralDigits : cn = <<d[1], "shi">>)[2])
    ELSE IF \E d \in NumeralDigits \X NumeralDigits : cn = <<d[1][1], "shi", d[2][1]>>
         THEN 2 * (LET d == CHOOSE d \in NumeralDigits \X NumeralDigits :
                                cn = <<d[1][1], "shi", d[2][1]>>
                   IN  10 * d[1][2] + d[2][2])
    ELSE 2

\* C17 (as claimed): the numeral converter never raises and follows the stated
\* resolution order: ASCII digits are read as a decimal, a known numeral has its
\* value, 十+digit is 10+digit, digit+十 is digit*10, digit+十+digit is
\* tens*10+ones, every other token is 1; the result is an integer for every token
\* other than 半.
C17_NumeralTotal ==
    (call[1].pc = "done" /\ call[1].via = "numeral") =>
        /\ out[1].kind = "returned"
        /\ out[1].halves = StatedHalves(call[1].expression)
        /\ call[1].expression # <<"ban">> => (~out[1].float /\ out[1].halves % 2 = 0)

\* C18 (as claimed): concurrent calls never observe each other's cached now:
\* every instant read during one call of parse is the one instant that call
\* resolved, for any interleaving of two calls, through the handler or on the
\* same FuzzyTimeParser instance.
C18_Isolation ==
    \A c \in Callers : Cardinality(call[c].seen) <= 1

\* the same for the calls made through the handler, one parser per request
HandlerIsolation ==
    \A c \in Callers : call[c].via = "handler" => Cardinality(call[c].seen) <= 1

\* what parse gives for h on its own when the range composer declines it: the
\* result of the first sub-parser after range, in the order of parse, that matches
AloneFrom(h, now, zh, i) ==
    IF i = 0 THEN NoMatch ELSE Apply(parsers[i], h, now, zh)

Alone(h, now, zh) ==
    AloneFrom(h, now, zh,
              First({i \in 2..Len(parsers) : Apply(parsers[i], h, now, zh).kind # "none"}))

\* the two halves of the range a finished call was composed of
HalvesOf(c) == RangeSplit(call[c].expr, call[c].pat)

\* caller c's call was answered by the range composer
Composed(c) ==
    /\ Finished(c)
    /\ call[c].consulted = <<"range">>
    /\ Result(c).kind = "ok"

\* C19 (as claimed): a half of a range resolves as it does on its own: the value
\* the range composer gives a half h equals the value of parse(h) (its first
\* element when that is a range) under the same now; a half prefix+周+X is the
\* weekday date of that week, as the half prefix+星期+X is, and a bare half 周五
\* is the current week's Friday.
C19_HalfAsAlone ==
    \A c \in Callers : Composed(c) =>
        \A j \in 1..2 :
            /\ (/\ RangeDeclines(HalvesOf(c)[j], TheNow(c), ZhNow)
                /\ Alone(HalvesOf(c)[j], TheNow(c), ZhNow).kind = "ok")
                  => Result(c).value.items[j]
                       = Alone(HalvesOf(c)[j], TheNow(c), ZhNow).value.items[1]
            /\ \A pw \in PrefixWeeks, wi \in WeekdayIndex :
                   HalvesOf(c)[j] \in {pw[1] \o <<"zhou">> \o wi[1],
                                      pw[1] \o <<"xing", "qi2">> \o wi[1]}
                     => Result(c).value.items[j]
                          = FormatDate(MondayOf(TheNow(c).date) + wi[2] + 7 * pw[2])

\* numerals the converter maps: an ASCII one, digits of 一..十, compounds, and 两
MappedNumerals == CnNumerals \cup {<<"3">>}

\* caller c's call was answered by the sub-parser name at confidence conf
AnsweredBy(c, name, conf) ==
    /\ call[c].consulted # <<>>
    /\ call[c].consulted[Len(call[c].consulted)] = name
    /\ call[c].idx <= Len(parsers)
    /\ Result(c).kind = "ok"
    /\ Result(c).confidence = conf

\* C20 (as claimed): every category accepts the same numerals: a numeral the
\* converter maps, 两 included, followed by 天前, 周前 or 个月前, or as the hour
\* of 下午..点, parses as relative-day at 0.95, relative-week at 0.9,
\* relative-month at 0.85 and time-of-day at 0.9, never as the 0.3 fallback.
C20_SameNumerals ==
    \A c \in Callers : Finished(c) =>
        \A n \in MappedNumerals :
            /\ call[c].expr = n \o <<"tian", "qian">> => AnsweredBy(c, "relative_day", 95)
            /\ call[c].expr = n \o <<"zhou", "qian">> => AnsweredBy(c, "relative_week", 90)
            /\ call[c].expr = n \o <<"ge", "yue", "qian">>
                  => AnsweredBy(c, "relative_month", 85)
            /\ (call[c].expr = <<"xia", "wu2">> \o n \o <<"dian">> /\ _cn_to_num(n) <= 12)
                  => AnsweredBy(c, "time_of_day", 90)

\* the datetime string of hour o'clock on the date d
OClock(d, hour) == FormatDate(d) \o " " \o Pad2(hour) \o ":00:00"

\* r is a range of two hours of the date d, the first not later than the second
IsOrderedHours(r, d) ==
    /\ r.kind = "ok"
    /\ r.is_range
    /\ \E a \in 0..23 : \E b \in a..23 : r.value = List(OClock(d, a), OClock(d, b))

\* C21 (as claimed): a clock-time range P H1点到H2点 with the period word on the
\* first half only and 1 <= H1 < H2 <= 11 is returned as a range whose start is
\* not later than its end, for every period word, 下午 and 晚上 included.
C21_ClockRangeOrdered ==
    \A c \in Callers : Finished(c) =>
        \A pw \in PeriodWords : \A h1 \in 1..10 : \A h2 \in (h1 + 1)..11 :
            (pw[1] # <<>> /\ call[c].expr = pw[1] \o DigitsOf(h1) \o <<"dian", "dao">>
                                                   \o DigitsOf(h2) \o <<"dian">>)
              => IsOrderedHours(Result(c), TheNow(c).date)

\* separator k splits expr into two halves that both parse
BothParse(expr, k, now, zh) ==
    /\ RangeSplit(expr, k) # <<>>
    /\ _parse_single(RangeSplit(expr, k)[1], now, zh).kind = "ok"
    /\ _parse_single(RangeSplit(expr, k)[2], now, zh).kind = "ok"

\* no half of any split of expr raises
NoHalfRaises(expr, now, zh) ==
    \A k \in 1..Len(range_patterns) : RangeSplit(expr, k) # <<>> =>
        \A j \in 1..2 : _parse_single(RangeSplit(expr, k)[j], now, zh).kind # "raise"

\* the first separator, in the order 到, 至, -, ~, 从..到, whose halves both parse;
\* 0 if there is none
FirstSeparator(expr, now, zh) ==
    First({k \in 1..Len(range_patterns) : BothParse(expr, k, now, zh)})

\* the range of the two halves separator k splits expr into
RangeOf(expr, now, zh, k) ==
    IF k = 0 THEN NoMatch
    ELSE RangeResult(expr, _parse_single(RangeSplit(expr, k)[1], now, zh),
                           _parse_single(RangeSplit(expr, k)[2], now, zh))

\* what the cascade after the range matcher gives for the whole expression
RestOfCascade(expr, now, zh) ==
    IF Alone(expr, now, zh).kind = "none" THEN Fallback(expr, now) ELSE Alone(expr, now, zh)

\* the finished call of expr at now answered as claim C22 states
AsSeparatorsSay(c, expr, now, zh) ==
    /\ FirstSeparator(expr, now, zh) > 0 =>
          /\ call[c].consulted = <<"range">>
          /\ call[c].pat = FirstSeparator(expr, now, zh)
          /\ Result(c) = RangeOf(expr, now, zh, FirstSeparator(expr, now, zh))
    /\ FirstSeparator(expr, now, zh) = 0 =>
          /\ Len(call[c].consulted) >= 2
          /\ Result(c) = RestOfCascade(expr, now, zh)
    /\ (Len(expr) > 1 /\ expr[1] = "cong" /\ BothParse(Tail(expr), 1, now, zh)) =>
          /\ Result(c).kind = "ok"
          /\ Result(c).value = RangeOf(Tail(expr), now, zh, 1).value

\* C22 (as claimed): the range matcher tries 到, 至, -, ~ and then 从..到 in that
\* order and moves on when a split leaves a half that does not parse; when no
\* separator gives two parsed halves, parse returns what the rest of the cascade
\* gives for the whole expression; and 从A到B has the value of A到B, the leading
\* 从 being no part of the start half.
C22_Separators ==
    \A c \in Callers :
        (Finished(c) /\ NoHalfRaises(call[c].expr, TheNow(c), ZhNow))
            => AsSeparatorsSay(c, call[c].expr, TheNow(c), ZhNow)

\* the lunar new year's day that follows lunar month 12 of a year: year, solar date
NewYearAfter == {
    << 2023, <<2024, 2, 10>> >>,
    << 2024, <<2025, 1, 29>> >> }

\* the solar date one day before the new year's day f[2]
EveOf(f) == ymd2ord(f[2][1], f[2][2], f[2][3]) - 1

\* C23 (as claimed): asked for lunar month 12, day 29 or 30, of year Y (除夕), the
\* lunar adapter gives the solar date one day before the next lunar new year's
\* day, the one that follows lunar month 12 of year Y, so that 除夕 parses to it.
C23_NewYearsEve ==
    \A c \in Callers :
        (Finished(c) /\ call[c].expr = <<"chu2", "xi">> /\ ZhNow = "ok") =>
            \A f \in NewYearAfter : ord2ymd(TheNow(c).date)[1] = f[1] =>
                /\ \A lunar_day \in 29..30 :
                       _lunar_to_solar(ZhNow, f[1], 12, lunar_day) = << EveOf(f) >>
                /\ IsDatePoint(Result(c), EveOf(f), 95)

====
